---------------------------- MODULE Spec2Model ----------------------------
(***************************************************************************)
(* Model of the health-check core: the command executor                    *)
(* (src/core/ServiceChecker.js), the status store (src/core/StatusStore.js)*)
(* and the check-and-record cycle of the orchestrator                      *)
(* (src/core/HealthMonitor.js).                                            *)
(*                                                                         *)
(* A JavaScript string is a sequence of one-character strings, so that     *)
(* trim, split, toLowerCase and the regular expressions are computed.      *)
(* A JavaScript value whose type matters is a record [t, v]: t is the      *)
(* type tag, v the characters of a string (<<>> otherwise).                *)
(***************************************************************************)
EXTENDS Integers, Sequences, FiniteSets, TLC

(* ------------------------------ bounds -------------------------------- *)

\* longest probe output of the executor specification
MaxOut == 1

\* longest probe output of the answer specification
MaxText == 3

\* recordCheckResult calls of the store specification (after a warm-up)
MaxCalls == 2

\* recordCheckResult calls of the status specification
MaxStatusCalls == 1

\* the runCheckForService invocations of one behaviour
MaxCycles == 2

\* the start() invocations of one behaviour
MaxStarts == 2

(* --------------------------- JavaScript values ------------------------ *)

Null == [t |-> "null", v |-> <<>>]

Undefined == [t |-> "undefined", v |-> <<>>]

Str(s) == [t |-> "string", v |-> s]

NumberValue == [t |-> "number", v |-> <<>>]

ObjectValue == [t |-> "object", v |-> <<>>]

\* value == null (null or undefined)
IsNullish(x) == x.t \in {"null", "undefined"}

(* ------------------------------ strings ------------------------------- *)

\* the whitespace String.prototype.trim removes, within the alphabet used
IsSpace(c) == c \in {" ", "\n", "\r", "\t"}

\* \w of a regular expression, within the alphabet used
IsWordChar(c) ==
  c \in {"0", "1", "2", "3", "4", "5", "6", "7", "8", "9", "_",
         "a", "b", "c", "d", "e", "f", "g", "h", "i", "j", "k", "l", "m",
         "n", "o", "p", "q", "r", "s", "t", "u", "v", "w", "x", "y", "z",
         "A", "B", "C", "D", "E", "F", "G", "H", "I", "J", "K", "L", "M",
         "N", "O", "P", "Q", "R", "S", "T", "U", "V", "W", "X", "Y", "Z"}

Min(S) == CHOOSE x \in S : \A y \in S : x <= y

RECURSIVE TrimStart(_)
TrimStart(s) ==
  IF s # <<>> /\ IsSpace(Head(s)) THEN TrimStart(Tail(s)) ELSE s

RECURSIVE TrimEnd(_)
TrimEnd(s) ==
  IF s # <<>> /\ IsSpace(s[Len(s)])
  THEN TrimEnd(SubSeq(s, 1, Len(s) - 1))
  ELSE s

Trim(s) == TrimEnd(TrimStart(s))

\* text.replace(/\r\n/g, '\n')
RECURSIVE ReplaceCRLF(_)
ReplaceCRLF(s) ==
  IF s = <<>> THEN <<>>
  ELSE IF Len(s) >= 2 /\ s[1] = "\r" /\ s[2] = "\n"
       THEN <<"\n">> \o ReplaceCRLF(SubSeq(s, 3, Len(s)))
       ELSE <<Head(s)>> \o ReplaceCRLF(Tail(s))

\* s.split('\n')
RECURSIVE SplitLines(_)
SplitLines(s) ==
  LET idx == {i \in 1..Len(s) : s[i] = "\n"}
  IN  IF idx = {} THEN <<s>>
      ELSE <<SubSeq(s, 1, Min(idx) - 1)>>
             \o SplitLines(SubSeq(s, Min(idx) + 1, Len(s)))

RECURSIVE MapTrim(_)
MapTrim(ls) ==
  IF ls = <<>> THEN <<>> ELSE <<Trim(Head(ls))>> \o MapTrim(Tail(ls))

\* .filter(Boolean) on strings: the empty string is dropped
RECURSIVE FilterNonEmpty(_)
FilterNonEmpty(ls) ==
  IF ls = <<>> THEN <<>>
  ELSE IF Head(ls) = <<>> THEN FilterNonEmpty(Tail(ls))
       ELSE <<Head(ls)>> \o FilterNonEmpty(Tail(ls))

\* the trimmed non-empty lines of the normalized text
OutputLines(normalized) == FilterNonEmpty(MapTrim(SplitLines(normalized)))

\* \b between position i-1 and position i of s (either may be outside s)
WordBoundaryAt(s, i) ==
  LET before == i >= 2 /\ i - 1 <= Len(s) /\ IsWordChar(s[i - 1])
      after  == i >= 1 /\ i <= Len(s) /\ IsWordChar(s[i])
  IN  before # after

\* new RegExp(`\\b${escapeRegExp(lit)}\\b`).test(s): escapeRegExp makes
\* every character of lit match itself only
BoundaryPatternTest(lit, s) ==
  \E i \in 1..(Len(s) - Len(lit) + 1) :
    /\ SubSeq(s, i, i + Len(lit) - 1) = lit
    /\ WordBoundaryAt(s, i)
    /\ WordBoundaryAt(s, i + Len(lit))

(* ------------------------- regular expressions ------------------------ *)
\* An expected-answer pattern is one character with a quantifier:
\* /c/ ("one"), /c*/ ("star"), /c+/ ("plus"); no g or y flag.

RECURSIVE RunLen(_, _, _)
RunLen(s, i, c) ==
  IF i <= Len(s) /\ s[i] = c THEN 1 + RunLen(s, i + 1, c) ELSE 0

RegExpTest(re, s) ==
  IF re.q = "star" THEN TRUE ELSE \E i \in 1..Len(s) : s[i] = re.ch

\* s.match(re)[0] when re.test(s): the leftmost match, greedy
RegExpMatch0(re, s) ==
  IF re.q = "star" THEN SubSeq(s, 1, RunLen(s, 1, re.ch))
  ELSE LET i == Min({j \in 1..Len(s) : s[j] = re.ch})
       IN  IF re.q = "one" THEN <<re.ch>>
           ELSE SubSeq(s, i, i + RunLen(s, i, re.ch) - 1)

(* --------------------------- expected answers ------------------------- *)
\* A candidate is a literal or a pattern; an expected-answer spec is
\* absent, one candidate, or a list of candidates.

Lit(s) == [kind |-> "lit", s |-> s, ch |-> "", q |-> ""]

Re(c, q) == [kind |-> "re", s |-> <<>>, ch |-> c, q |-> q]

NoExpected == [kind |-> "none", cs |-> <<>>]

OneExpected(c) == [kind |-> "one", cs |-> <<c>>]

ListExpected(cs) == [kind |-> "list", cs |-> cs]

\* Boolean(candidate): only the empty string literal is falsy
Truthy(c) == c.kind = "re" \/ c.s # <<>>

RECURSIVE FilterTruthy(_)
FilterTruthy(cs) ==
  IF cs = <<>> THEN <<>>
  ELSE IF Truthy(Head(cs)) THEN <<Head(cs)>> \o FilterTruthy(Tail(cs))
       ELSE FilterTruthy(Tail(cs))

ExpectedList(expectedAnswer) ==
  IF expectedAnswer.kind = "list" THEN FilterTruthy(expectedAnswer.cs)
  ELSE expectedAnswer.cs

FirstLineMatching(re, lines) ==
  lines[Min({i \in 1..Len(lines) : RegExpTest(re, lines[i])})]

\* one turn of the loop over expectedList: the answer this candidate
\* gives, or Undefined when the loop goes on to the next candidate
TryCandidate(expected, lines, normalized) ==
  IF expected.kind = "re"
  THEN IF \E i \in 1..Len(lines) : RegExpTest(expected, lines[i])
       THEN Str(FirstLineMatching(expected, lines))
       ELSE IF RegExpTest(expected, normalized)
            THEN Str(RegExpMatch0(expected, normalized))
            ELSE Undefined
  ELSE LET expectedString == Trim(expected.s)
       IN  IF expectedString = <<>> THEN Undefined
           ELSE IF \E i \in 1..Len(lines) : lines[i] = expectedString
                THEN Str(expectedString)
                ELSE IF BoundaryPatternTest(expectedString, normalized)
                     THEN Str(expectedString)
                     ELSE Undefined

RECURSIVE TryCandidates(_, _, _)
TryCandidates(cs, lines, normalized) ==
  IF cs = <<>> THEN Null
  ELSE LET r == TryCandidate(Head(cs), lines, normalized)
       IN  IF r.t = "string" THEN r
           ELSE TryCandidates(Tail(cs), lines, normalized)

\* extractAnswer without .filter(Boolean) on the lines: with no expected
\* answer a blank first line gives no answer
extractAnswerBlankFirst(text, expectedAnswer) ==
  IF text = <<>> THEN Null
  ELSE LET normalized == ReplaceCRLF(text)
           lines == MapTrim(SplitLines(normalized))
           expectedList == ExpectedList(expectedAnswer)
       IN  IF expectedList = <<>>
           THEN IF lines[1] = <<>> THEN Null ELSE Str(lines[1])
           ELSE TryCandidates(expectedList, FilterNonEmpty(lines), normalized)

extractAnswer(text, expectedAnswer) ==
  IF text = <<>> THEN Null
  ELSE LET normalized == ReplaceCRLF(text)
           lines == OutputLines(normalized)
           expectedList == ExpectedList(expectedAnswer)
       IN  IF expectedList = <<>>
           THEN IF lines = <<>> THEN Null ELSE Str(lines[1])
           ELSE TryCandidates(expectedList, lines, normalized)

(* ------------------------------ statuses ------------------------------ *)

StatusOk == <<"o", "k">>

StatusFail == <<"f", "a", "i", "l">>

StatusError == <<"e", "r", "r", "o", "r">>

StatusTimeout == <<"t", "i", "m", "e", "o", "u", "t">>

ALLOWED_STATUSES == {StatusOk, StatusFail, StatusError, StatusTimeout}

EXEC_TIMEOUT == 30000

GRACE_PERIOD == 2000

(* ------------------------------- state -------------------------------- *)

VARIABLES
  service,        \* the service definition handed to check()
  pc,             \* check(): "idle", "running" (process spawned), "done"
  promise,        \* the promise check() returned
  finalizeLog,    \* the calls of finalize(result), in order
  proc,           \* the ChildProcess: exitCode, signalCode, closed
  child,          \* the operating-system side of the probe
  timeoutHandle,  \* "null", "armed", "fired", "cleared"
  forceKillTimer, \* "null", "armed", "fired", "cleared"
  timedOut,
  stdout,
  signals,        \* the proc.kill calls made, in order
  cyclePc,        \* runCheckForService: "check", "record", "snapshot", "done"
  statusData,     \* StatusStore.statusData: service id -> StatusEntry
  initialized,    \* StatusStore.initialized
  statusFile,     \* data/status.json: [exists, doc]
  pendingWrites,  \* fs.writeFile calls in flight: set of [id, payload]
  now,            \* Date.now()
  callCount,      \* recordCheckResult calls made so far
  lastCall,       \* the latest recordCheckResult call and its outcome
  config,         \* config/services.json: the service definitions, in order
  claudeConfigInitialized, \* HealthMonitor.claudeConfigInitialized
  starts,         \* the start() invocations: where each one stands
  tasks,          \* the cron jobs created so far: [service, active]
  serviceTasks,   \* HealthMonitor.serviceTasks: service id -> cron job
  stopped,        \* stop() was the latest lifecycle call made
  cycles,         \* the runCheckForService invocations, in order of call
  microtasks,     \* continuations of settled awaits, not run yet
  runChecks,      \* the runChecks() invocation: [state, next]
  exited,         \* process.exit(1) was called
  publicStatus,   \* the public status file generatePublicStatus writes
  configFile,     \* what config/services.json holds around the definitions
  returned        \* what the latest loadConfig or accessor call returned

execVars == <<service, pc, promise, finalizeLog, proc, child, timeoutHandle,
              forceKillTimer, timedOut, stdout, signals, cyclePc>>

storeVars == <<statusData, initialized, statusFile, pendingWrites, now,
               callCount, lastCall>>

orchVars == <<config, claudeConfigInitialized, starts, tasks, serviceTasks,
              stopped, cycles, microtasks, runChecks, exited, publicStatus>>

readVars == <<configFile, returned>>

vars == <<execVars, storeVars, orchVars, readVars>>

(* ------------------------------ timestamps ---------------------------- *)
\* A timestamp string is the instant it denotes (ms) and the format it is
\* written in: "iso" (what toISOString writes), "date" (another format
\* Date parses, such as "2024-01-01"), "invalid" (Date parses it to NaN).

IsoString(ms) == [ms |-> ms, fmt |-> "iso"]

TimeValue(t, ts) == [t |-> t, ts |-> ts]

NoTime == TimeValue("undefined", IsoString(0))

\* #normalizeTimestamp(value)
normalizeTimestamp(value, clock) ==
  IF value.t \in {"string", "date"} /\ value.ts.fmt # "invalid"
  THEN IsoString(value.ts.ms)
  ELSE IsoString(clock)

(* ------------------------------ numbers ------------------------------- *)
\* A response time as a JavaScript value: a finite number, or something
\* Number.isFinite rejects (NaN, a numeric string, undefined).

Num(n) == [t |-> "number", n |-> n]

NotANumber == [t |-> "nan", n |-> 0]

NumericString(n) == [t |-> "string", n |-> n]

NoNumber == [t |-> "undefined", n |-> 0]

(* ============================ the executor ============================ *)

ServiceName == Str(<<"s", "v", "c">>)

\* the command line of checkService: a string is trimmed, anything that
\* is neither a string nor an array gives ''
CommandLine(command) ==
  IF command.t = "string" THEN Trim(command.v) ELSE <<>>

\* effectiveTimeout of checkService, after check()'s own default
EffectiveTimeout(timeout) ==
  IF timeout.t = "number" /\ timeout.n > 0 THEN timeout.n ELSE EXEC_TIMEOUT

\* a CheckResult as checkService builds it (answer absent: Undefined)
CheckResult(status, ans, message, out) ==
  [name |-> ServiceName,
   stdout |-> Str(out),
   stderr |-> Str(<<>>),
   checkedAt |-> TimeValue("string", IsoString(now)),
   status |-> Str(status),
   answer |-> ans,
   message |-> message,
   responseTime |-> Num(0),
   expectedAnswer |-> service.expectedAnswer]

ErrorMessage(what) == Str(<<what>>)

\* the 'close' handler with the answer looked for before the exit code
CloseResultAnswerFirst(code, signal, flagged, out, expectedAnswer, timeout) ==
  IF flagged
  THEN CheckResult(StatusTimeout, Undefined,
                   Str(<<"Execution timed out after ", ToString(timeout), "ms">>),
                   Trim(out))
  ELSE LET ans == extractAnswer(out, expectedAnswer)
       IN  IF ~IsNullish(ans)
           THEN CheckResult(StatusOk, ans, Null, Trim(out))
           ELSE IF code # "0"
           THEN CheckResult(StatusError, Undefined,
                            IF signal # "null"
                            THEN Str(<<"Process stopped by signal: ", signal>>)
                            ELSE Str(<<"Exit code: ", code>>),
                            Trim(out))
           ELSE CheckResult(StatusFail, Null,
                            Str(<<"Expected answer was not matched">>),
                            Trim(out))

\* the result the 'close' handler passes to finalize
CloseResult(code, signal, flagged, out, expectedAnswer, timeout) ==
  IF flagged
  THEN CheckResult(StatusTimeout, Undefined,
                   Str(<<"Execution timed out after ", ToString(timeout), "ms">>),
                   Trim(out))
  ELSE IF code # "0"
  THEN CheckResult(StatusError, Undefined,
                   IF signal # "null"
                   THEN Str(<<"Process stopped by signal: ", signal>>)
                   ELSE Str(<<"Exit code: ", code>>),
                   Trim(out))
  ELSE LET ans == extractAnswer(out, expectedAnswer)
       IN  IF ~IsNullish(ans)
           THEN CheckResult(StatusOk, ans, Null, Trim(out))
           ELSE CheckResult(StatusFail, Null,
                            Str(<<"Expected answer was not matched">>),
                            Trim(out))

\* clearTimeout(handle), guarded by "if (handle)"
ClearTimer(handle) == IF handle = "armed" THEN "cleared" ELSE handle

\* resolve(result): only the first call settles the promise
Resolve(p, result) ==
  IF p.state = "pending" THEN [state |-> "resolved", value |-> result] ELSE p

\* a finalize call as finalizeLog keeps it: the handler that made it (src)
\* and what that handler saw
LogEntry(src, result) ==
  [src |-> src, code |-> proc.exitCode, signal |-> proc.signalCode,
   timedOut |-> timedOut', out |-> stdout, result |-> result]

\* finalize(result), the timers being left as th and fk afterwards
FinalizeLeaving(src, result, th, fk) ==
  /\ timeoutHandle' = th
  /\ forceKillTimer' = fk
  /\ finalizeLog' = Append(finalizeLog, LogEntry(src, result))
  /\ promise' = Resolve(promise, result)

finalize(src, result) ==
  FinalizeLeaving(src, result, ClearTimer(timeoutHandle),
                  ClearTimer(forceKillTimer))

NoProc == [exitCode |-> "null", signalCode |-> "null", closed |-> FALSE]

NoChild == [spawn |-> "none", output |-> <<>>, printed |-> FALSE,
            ignoresTerm |-> FALSE, pipesHeld |-> FALSE]

Alive == proc.exitCode = "null" /\ proc.signalCode = "null"

(* ============================== the store ============================= *)

MAX_RECENT_CHECKS == 90

StatusDegraded == <<"d", "e", "g", "r", "a", "d", "e", "d">>

StatusDown == <<"d", "o", "w", "n">>

StatusUnknown == <<"u", "n", "k", "n", "o", "w", "n">>

\* String.prototype.toLowerCase on one character, within the alphabet used
LowerChar(c) ==
  CASE c = "A" -> "a" [] c = "D" -> "d" [] c = "E" -> "e" [] c = "F" -> "f"
    [] c = "I" -> "i" [] c = "K" -> "k" [] c = "L" -> "l" [] c = "M" -> "m"
    [] c = "N" -> "n" [] c = "O" -> "o" [] c = "R" -> "r" [] c = "T" -> "t"
    [] c = "U" -> "u" [] c = "W" -> "w"
    [] OTHER -> c

ToLowerCase(s) == [i \in 1..Len(s) |-> LowerChar(s[i])]

\* #normalizeStatus with the final "return 'error'" replaced by
\* "return trimmed" for strings
normalizeStatusPassThrough(status) ==
  IF status.t = "string"
  THEN LET trimmed == ToLowerCase(Trim(status.v))
       IN  IF trimmed \in ALLOWED_STATUSES THEN Str(trimmed)
           ELSE IF trimmed = StatusDegraded \/ trimmed = StatusDown
                THEN Str(StatusFail)
                ELSE Str(trimmed)
  ELSE Str(StatusError)

\* #normalizeStatus(status)
normalizeStatus(status) ==
  IF status.t = "string"
  THEN LET trimmed == ToLowerCase(Trim(status.v))
       IN  IF trimmed \in ALLOWED_STATUSES THEN Str(trimmed)
           ELSE IF trimmed = StatusDegraded \/ trimmed = StatusDown
                THEN Str(StatusFail)
                ELSE Str(StatusError)
  ELSE Str(StatusError)

\* String(value) of a value that is not a string
StringOf(x) ==
  CASE x.t = "number" -> Str(<<"7">>)
    [] x.t = "object" -> Str(<<"[object Object]">>)
    [] OTHER -> Str(<<x.t>>)

\* safeString of #normalizeResult
safeString(value) ==
  IF value.t = "string" THEN value
  ELSE IF ~IsNullish(value) THEN StringOf(value) ELSE Str(<<>>)

\* nullableString of #normalizeResult
nullableString(value) ==
  IF IsNullish(value) THEN Null
  ELSE LET stringified == IF value.t = "string" THEN value ELSE StringOf(value)
       IN  IF Len(stringified.v) > 0 THEN stringified ELSE Null

\* Number.isFinite(x) ? Number(x) : 0
FiniteOrZero(x) == IF x.t = "number" THEN Num(x.n) ELSE Num(0)

\* the fields of a raw result that is no object are all undefined
EmptyResult ==
  [name |-> Undefined, stdout |-> Undefined, stderr |-> Undefined,
   checkedAt |-> NoTime, status |-> Undefined, answer |-> Undefined,
   message |-> Undefined, responseTime |-> NoNumber,
   expectedAnswer |-> NoExpected]

RawObject(f) == [t |-> "object", f |-> f]

RawNull == [t |-> "null", f |-> EmptyResult]

\* #normalizeResult(rawResult)
normalizeResult(rawResult, clock) ==
  LET result == IF rawResult.t = "object" THEN rawResult.f ELSE EmptyResult
      named == nullableString(result.name)
  IN  [name |-> IF IsNullish(named) THEN Str(<<"Unknown Service">>) ELSE named,
       status |-> normalizeStatus(result.status),
       responseTime |-> FiniteOrZero(result.responseTime),
       stdout |-> safeString(result.stdout),
       stderr |-> safeString(result.stderr),
       answer |-> nullableString(result.answer),
       message |-> nullableString(result.message),
       checkedAt |-> TimeValue("string",
                               normalizeTimestamp(result.checkedAt, clock)),
       expectedAnswer |-> result.expectedAnswer]

RecentCheck(result) ==
  [timestamp |-> result.checkedAt, status |-> result.status,
   responseTime |-> result.responseTime]

\* the loop of #sanitizeRecentChecks keeps an item whose timestamp is a
\* string
HasTimestamp(item) == item.timestamp.t = "string"

SanitizeItems(checks) ==
  LET kept == SelectSeq(checks, HasTimestamp)
  IN  [i \in 1..Len(kept) |->
         [timestamp |-> kept[i].timestamp,
          status |-> normalizeStatus(kept[i].status),
          responseTime |-> FiniteOrZero(kept[i].responseTime)]]

\* sanitized.slice(0, MAX_RECENT_CHECKS): the newest items are dropped
FirstItems(items, n) ==
  IF Len(items) > n THEN SubSeq(items, 1, n) ELSE items

\* sanitized.slice(-MAX_RECENT_CHECKS)
LastItems(items, n) ==
  IF Len(items) > n THEN SubSeq(items, Len(items) - n + 1, Len(items))
  ELSE items

\* #sanitizeRecentChecks(checks) of an array
sanitizeRecentChecks(checks) ==
  LastItems(SanitizeItems(checks), MAX_RECENT_CHECKS)

\* serviceId == null in place of !serviceId
IsEmptyIdNullish(serviceId) ==
  IsNullish(serviceId)

\* !serviceId
IsEmptyId(serviceId) ==
  IsNullish(serviceId) \/ (serviceId.t = "string" /\ serviceId.v = <<>>)

ExistingRecent(sd, key) ==
  IF key \in DOMAIN sd THEN sd[key].recentChecks ELSE <<>>

\* the entry with the new check put in front of the history
NewEntryNewestFirst(sd, key, rawResult, clock) ==
  LET result == normalizeResult(rawResult, clock)
      mergedRecent == <<RecentCheck(result)>> \o ExistingRecent(sd, key)
  IN  [status |-> result.status,
       lastCheck |-> result.checkedAt,
       lastResult |-> result,
       recentChecks |-> sanitizeRecentChecks(mergedRecent)]

\* the entry stamped with the time of the call, not the result's checkedAt
NewEntryStampedNow(sd, key, rawResult, clock) ==
  LET result == normalizeResult(rawResult, clock)
      mergedRecent == Append(ExistingRecent(sd, key), RecentCheck(result))
  IN  [status |-> result.status,
       lastCheck |-> TimeValue("string", IsoString(clock)),
       lastResult |-> result,
       recentChecks |-> sanitizeRecentChecks(mergedRecent)]

\* the entry recordCheckResult builds for the service
NewEntry(sd, key, rawResult, clock) ==
  LET result == normalizeResult(rawResult, clock)
      mergedRecent == Append(ExistingRecent(sd, key), RecentCheck(result))
  IN  [status |-> result.status,
       lastCheck |-> result.checkedAt,
       lastResult |-> result,
       recentChecks |-> sanitizeRecentChecks(mergedRecent)]

\* this.statusData = { [serviceId]: entry }
PutEntryAlone(sd, key, entry) ==
  [k \in {key} |-> entry]

\* this.statusData[serviceId] = entry
PutEntry(sd, key, entry) ==
  [k \in DOMAIN sd \cup {key} |-> IF k = key THEN entry ELSE sd[k]]

\* statusData after the synchronous part of recordCheckResult
RecordedData(sd, serviceId, rawResult, clock) ==
  IF IsEmptyId(serviceId) THEN sd
  ELSE PutEntry(sd, serviceId.v,
                NewEntry(sd, serviceId.v, rawResult, clock))

EmptyData == <<>>

NoFile == [exists |-> FALSE, doc |-> EmptyData]

NoCall == [op |-> "none", serviceId |-> Undefined, status |-> Undefined,
           threw |-> FALSE]

\* JSON.stringify of an expected-answer candidate: a RegExp becomes {}
JsonCandidate(c) == IF c.kind = "re" THEN Re("", "object") ELSE c

JsonExpected(e) ==
  [kind |-> e.kind, cs |-> [i \in 1..Len(e.cs) |-> JsonCandidate(e.cs[i])]]

\* JSON.stringify(this.statusData): the document a write carries
JsonDocument(sd) ==
  [k \in DOMAIN sd |->
     [sd[k] EXCEPT !.lastResult.expectedAnswer =
                     JsonExpected(sd[k].lastResult.expectedAnswer)]]

Write(id, sd) == [id |-> id, payload |-> JsonDocument(sd)]

(* ------------------------- executor: actions -------------------------- *)

\* all strings over alphabet of length at most n
Strings(alphabet, n) == UNION {[1..k -> alphabet] : k \in 0..n}

\* check(): "if (!service || typeof service !== 'object') throw"
CheckRejects ==
  /\ pc = "idle"
  /\ service.t # "object"
  /\ pc' = "done"
  /\ promise' = [state |-> "rejected",
                 value |-> <<"Service definition is required">>]
  /\ UNCHANGED <<service, finalizeLog, proc, child, timeoutHandle,
                 forceKillTimer, timedOut, stdout, signals, cyclePc>>
  /\ UNCHANGED storeVars
  /\ UNCHANGED orchVars
  /\ UNCHANGED readVars

\* checkService: "if (!processedCommand) { ... resolve(payload); return; }"
CheckEmptyCommand ==
  /\ pc = "idle"
  /\ service.t = "object"
  /\ CommandLine(service.command) = <<>>
  /\ pc' = "done"
  /\ promise' = Resolve(promise,
                        CheckResult(StatusError, Undefined,
                                    Str(<<"Command cannot be empty">>), <<>>))
  /\ UNCHANGED <<service, finalizeLog, proc, child, timeoutHandle,
                 forceKillTimer, timedOut, stdout, signals, cyclePc>>
  /\ UNCHANGED storeVars
  /\ UNCHANGED orchVars
  /\ UNCHANGED readVars

\* checkService: spawn throws, the catch block finalizes
CheckSpawnThrows ==
  /\ pc = "idle"
  /\ service.t = "object"
  /\ CommandLine(service.command) # <<>>
  /\ pc' = "done"
  /\ UNCHANGED timedOut
  /\ finalize("catch", CheckResult(StatusError, Undefined,
                                   ErrorMessage("spawn EINVAL"), <<>>))
  /\ UNCHANGED <<service, proc, child, stdout, signals, cyclePc>>
  /\ UNCHANGED storeVars
  /\ UNCHANGED orchVars
  /\ UNCHANGED readVars

\* checkService: spawn returns a ChildProcess; the handlers are registered
\* and the timeout timer is armed
CheckSpawns(outcome, output, ignores, held) ==
  /\ pc = "idle"
  /\ service.t = "object"
  /\ CommandLine(service.command) # <<>>
  /\ pc' = "running"
  /\ proc' = NoProc
  /\ child' = [spawn |-> outcome, output |-> output, printed |-> FALSE,
               ignoresTerm |-> ignores, pipesHeld |-> held]
  /\ timeoutHandle' = "armed"
  /\ UNCHANGED <<service, promise, finalizeLog, forceKillTimer, timedOut,
                 stdout, signals, cyclePc>>
  /\ UNCHANGED storeVars
  /\ UNCHANGED orchVars
  /\ UNCHANGED readVars

\* the spawn failed after it returned (ENOENT, EACCES, EAGAIN): on the next
\* tick the ChildProcess sets its exitCode to the error and emits 'error'
SpawnError ==
  /\ pc = "running"
  /\ child.spawn = "asyncError"
  /\ Alive
  /\ proc' = [proc EXCEPT !.exitCode = "-2"]
  /\ UNCHANGED timedOut
  /\ finalize("error", CheckResult(StatusError, Undefined,
                                   ErrorMessage("spawn ENOENT"), Trim(stdout)))
  /\ UNCHANGED <<service, pc, child, stdout, signals, cyclePc>>
  /\ UNCHANGED storeVars
  /\ UNCHANGED orchVars
  /\ UNCHANGED readVars

\* proc.stdout.on('data'): the probe's output arrives
StdoutData ==
  /\ pc = "running"
  /\ child.spawn = "ok"
  /\ Alive
  /\ ~child.printed
  /\ child.output # <<>>
  /\ stdout' = stdout \o child.output
  /\ child' = [child EXCEPT !.printed = TRUE]
  /\ UNCHANGED <<service, pc, promise, finalizeLog, proc, timeoutHandle,
                 forceKillTimer, timedOut, signals, cyclePc>>
  /\ UNCHANGED storeVars
  /\ UNCHANGED orchVars
  /\ UNCHANGED readVars

\* the process ends and the ChildProcess records how
ProcExitWith(code, signal) ==
  /\ pc = "running"
  /\ child.spawn = "ok"
  /\ Alive
  /\ proc' = [proc EXCEPT !.exitCode = code, !.signalCode = signal]
  /\ UNCHANGED <<service, pc, promise, finalizeLog, child, timeoutHandle,
                 forceKillTimer, timedOut, stdout, signals, cyclePc>>
  /\ UNCHANGED storeVars
  /\ UNCHANGED orchVars
  /\ UNCHANGED readVars

\* the probe ends by itself: an exit code, or a signal of its own
ProcExitSelf ==
  \E how \in {<<"0", "null">>, <<"1", "null">>, <<"null", "SIGSEGV">>} :
    ProcExitWith(how[1], how[2])

\* the probe is ended by a signal proc.kill delivered
ProcKilled ==
  \E i \in 1..Len(signals) :
    /\ signals[i].ok
    /\ signals[i].sig = "SIGKILL" \/ ~child.ignoresTerm
    /\ ProcExitWith("null", signals[i].sig)

\* a descendant of the probe that inherited the output pipes closes them
PipesRelease ==
  /\ pc = "running"
  /\ child.pipesHeld
  /\ child' = [child EXCEPT !.pipesHeld = FALSE]
  /\ UNCHANGED <<service, pc, promise, finalizeLog, proc, timeoutHandle,
                 forceKillTimer, timedOut, stdout, signals, cyclePc>>
  /\ UNCHANGED storeVars
  /\ UNCHANGED orchVars
  /\ UNCHANGED readVars

\* proc.on('close'): the process has ended and its output pipes are closed
ProcClose ==
  /\ pc = "running"
  /\ ~Alive
  /\ ~proc.closed
  /\ ~child.pipesHeld
  /\ proc' = [proc EXCEPT !.closed = TRUE]
  /\ UNCHANGED timedOut
  /\ finalize("close",
              CloseResult(proc.exitCode, proc.signalCode, timedOut, stdout,
                          service.expectedAnswer,
                          EffectiveTimeout(service.timeout)))
  /\ UNCHANGED <<service, pc, child, stdout, signals, cyclePc>>
  /\ UNCHANGED storeVars
  /\ UNCHANGED orchVars
  /\ UNCHANGED readVars

Signal(sig, ok) ==
  [sig |-> sig, ok |-> ok, live |-> Alive,
   finalized |-> promise.state # "pending",
   timeoutHandle |-> timeoutHandle, forceKillTimer |-> forceKillTimer]

\* a timeout callback without the test of exitCode and signalCode
TimeoutAfterExitKills ==
  /\ pc = "running"
  /\ timeoutHandle = "armed"
  /\ ~Alive
  /\ timedOut' = TRUE
  /\ signals' = Append(signals, Signal("SIGTERM", TRUE))
  /\ timeoutHandle' = "fired"
  /\ forceKillTimer' = "armed"
  /\ UNCHANGED <<service, pc, promise, finalizeLog, proc, child, stdout,
                 cyclePc>>
  /\ UNCHANGED storeVars
  /\ UNCHANGED orchVars
  /\ UNCHANGED readVars

\* the timeout timer fires after the exit was recorded: it returns at once
TimeoutAfterExit ==
  /\ pc = "running"
  /\ timeoutHandle = "armed"
  /\ ~Alive
  /\ timeoutHandle' = "fired"
  /\ UNCHANGED <<service, pc, promise, finalizeLog, proc, child,
                 forceKillTimer, timedOut, stdout, signals, cyclePc>>
  /\ UNCHANGED storeVars
  /\ UNCHANGED orchVars
  /\ UNCHANGED readVars

\* the timeout timer fires on a live process: SIGTERM, and the force-kill
\* timer is armed
TimeoutKill ==
  /\ pc = "running"
  /\ timeoutHandle = "armed"
  /\ Alive
  /\ timedOut' = TRUE
  /\ signals' = Append(signals, Signal("SIGTERM", TRUE))
  /\ timeoutHandle' = "fired"
  /\ forceKillTimer' = "armed"
  /\ UNCHANGED <<service, pc, promise, finalizeLog, proc, child, stdout,
                 cyclePc>>
  /\ UNCHANGED storeVars
  /\ UNCHANGED orchVars
  /\ UNCHANGED readVars

\* as TimeoutKill, but the signal cannot be delivered (EPERM): proc.kill
\* emits 'error' before it returns, so the 'error' handler finalizes first
\* and the force-kill timer is armed after that
TimeoutKillFails ==
  /\ pc = "running"
  /\ timeoutHandle = "armed"
  /\ Alive
  /\ timedOut' = TRUE
  /\ signals' = Append(signals, Signal("SIGTERM", FALSE))
  /\ FinalizeLeaving("error",
                     CheckResult(StatusError, Undefined,
                                 ErrorMessage("kill EPERM"), Trim(stdout)),
                     "fired", "armed")
  /\ UNCHANGED <<service, pc, proc, child, stdout, cyclePc>>
  /\ UNCHANGED storeVars
  /\ UNCHANGED orchVars
  /\ UNCHANGED readVars

\* the force-kill timer fires after the exit was recorded
ForceKillAfterExit ==
  /\ pc = "running"
  /\ forceKillTimer = "armed"
  /\ ~Alive
  /\ forceKillTimer' = "fired"
  /\ UNCHANGED <<service, pc, promise, finalizeLog, proc, child,
                 timeoutHandle, timedOut, stdout, signals, cyclePc>>
  /\ UNCHANGED storeVars
  /\ UNCHANGED orchVars
  /\ UNCHANGED readVars

\* the force-kill timer fires on a live process: SIGKILL
ForceKill ==
  /\ pc = "running"
  /\ forceKillTimer = "armed"
  /\ Alive
  /\ signals' = Append(signals, Signal("SIGKILL", TRUE))
  /\ forceKillTimer' = "fired"
  /\ UNCHANGED <<service, pc, promise, finalizeLog, proc, child,
                 timeoutHandle, timedOut, stdout, cyclePc>>
  /\ UNCHANGED storeVars
  /\ UNCHANGED orchVars
  /\ UNCHANGED readVars

\* as ForceKill, but the signal cannot be delivered: 'error' is emitted
ForceKillFails ==
  /\ pc = "running"
  /\ forceKillTimer = "armed"
  /\ Alive
  /\ signals' = Append(signals, Signal("SIGKILL", FALSE))
  /\ UNCHANGED timedOut
  /\ FinalizeLeaving("error",
                     CheckResult(StatusError, Undefined,
                                 ErrorMessage("kill EPERM"), Trim(stdout)),
                     ClearTimer(timeoutHandle), "fired")
  /\ UNCHANGED <<service, pc, proc, child, stdout, cyclePc>>
  /\ UNCHANGED storeVars
  /\ UNCHANGED orchVars
  /\ UNCHANGED readVars

(* ------------------- the check-and-record cycle ----------------------- *)

ServiceId1 == Str(<<"s", "1">>)

ServiceId2 == Str(<<"s", "2">>)

\* the synthesized result of runCheckForService's catch block
Fallback(message) ==
  CheckResult(StatusError, Undefined, ErrorMessage(message), <<>>)

Call(serviceId, rawResult, threw) ==
  [op |-> "record", serviceId |-> serviceId,
   status |-> IF rawResult.t = "object" THEN rawResult.f.status
              ELSE Undefined,
   threw |-> threw]

\* recordCheckResult up to its await: the entry is replaced in memory and
\* the whole document is handed to fs.writeFile
RecordAndWrite(serviceId, rawResult, clock) ==
  /\ statusData' = RecordedData(statusData, serviceId, rawResult, clock)
  /\ pendingWrites' = pendingWrites \cup {Write(callCount + 1, statusData')}
  /\ callCount' = callCount + 1
  /\ lastCall' = Call(serviceId, rawResult, FALSE)

\* runCheckForService: the check has settled; its result, or the fallback
\* when it threw, is handed to the store
MonitorRecord ==
  /\ cyclePc = "check"
  /\ promise.state # "pending"
  /\ RecordAndWrite(ServiceId1,
                    IF promise.state = "resolved"
                    THEN RawObject(promise.value)
                    ELSE RawObject(Fallback(promise.value[1])),
                    now)
  /\ cyclePc' = "record"
  /\ UNCHANGED <<service, pc, promise, finalizeLog, proc, child,
                 timeoutHandle, forceKillTimer, timedOut, stdout, signals>>
  /\ UNCHANGED <<initialized, statusFile, now>>
  /\ UNCHANGED orchVars
  /\ UNCHANGED readVars

\* fs.writeFile completes: the file holds the document the call carried
WriteDone ==
  \E w \in pendingWrites :
    /\ statusFile' = [exists |-> TRUE, doc |-> w.payload]
    /\ pendingWrites' = pendingWrites \ {w}
    /\ cyclePc' = IF cyclePc \in {"record", "recordFallback"} THEN "done"
                  ELSE cyclePc
    /\ UNCHANGED <<service, pc, promise, finalizeLog, proc, child,
                   timeoutHandle, forceKillTimer, timedOut, stdout, signals>>
    /\ UNCHANGED <<statusData, initialized, now, callCount, lastCall>>
    /\ UNCHANGED orchVars
    /\ UNCHANGED readVars

\* fs.writeFile fails inside the try block: the catch block records the
\* fallback result
MonitorCatchesWriteFailure ==
  \E w \in pendingWrites :
    /\ cyclePc = "record"
    /\ statusData' = RecordedData(statusData, ServiceId1,
                                  RawObject(Fallback("EIO")), now)
    /\ pendingWrites' =
         (pendingWrites \ {w}) \cup {Write(callCount + 1, statusData')}
    /\ callCount' = callCount + 1
    /\ lastCall' = Call(ServiceId1, RawObject(Fallback("EIO")), FALSE)
    /\ cyclePc' = "recordFallback"
    /\ UNCHANGED <<service, pc, promise, finalizeLog, proc, child,
                   timeoutHandle, forceKillTimer, timedOut, stdout, signals>>
    /\ UNCHANGED <<initialized, statusFile, now>>
    /\ UNCHANGED orchVars
    /\ UNCHANGED readVars

\* fs.writeFile fails inside the catch block: runCheckForService rejects
MonitorWriteFailsAgain ==
  \E w \in pendingWrites :
    /\ cyclePc = "recordFallback"
    /\ pendingWrites' = pendingWrites \ {w}
    /\ cyclePc' = "failed"
    /\ UNCHANGED <<service, pc, promise, finalizeLog, proc, child,
                   timeoutHandle, forceKillTimer, timedOut, stdout, signals>>
    /\ UNCHANGED <<statusData, initialized, statusFile, now, callCount,
                   lastCall>>
    /\ UNCHANGED orchVars
    /\ UNCHANGED readVars

(* ---------------------------- store: actions -------------------------- *)

\* initialize() that leaves this.statusData as it is
InitializeKeeping ==
  \E unlinked \in BOOLEAN :
    /\ cyclePc = "none"
    /\ statusFile' = IF unlinked THEN NoFile ELSE statusFile
    /\ initialized' = TRUE
    /\ lastCall' = [NoCall EXCEPT !.op = "initialize"]
    /\ UNCHANGED <<statusData, pendingWrites, now, callCount>>
    /\ UNCHANGED execVars
    /\ UNCHANGED orchVars
    /\ UNCHANGED readVars

\* initialize(): the status file is unlinked (a failure is logged), the
\* in-memory document is emptied
Initialize ==
  \E unlinked \in BOOLEAN :
    /\ cyclePc = "none"
    /\ statusFile' = IF unlinked THEN NoFile ELSE statusFile
    /\ statusData' = EmptyData
    /\ initialized' = TRUE
    /\ lastCall' = [NoCall EXCEPT !.op = "initialize"]
    /\ UNCHANGED <<pendingWrites, now, callCount>>
    /\ UNCHANGED execVars
    /\ UNCHANGED orchVars
    /\ UNCHANGED readVars

\* recordCheckResult before initialize(): #assertInitialized throws
RecordThrows(serviceId, rawResult) ==
  /\ cyclePc = "none"
  /\ ~initialized
  /\ callCount' = callCount + 1
  /\ lastCall' = Call(serviceId, rawResult, TRUE)
  /\ UNCHANGED <<statusData, initialized, statusFile, pendingWrites, now>>
  /\ UNCHANGED execVars
  /\ UNCHANGED orchVars
  /\ UNCHANGED readVars

\* recordCheckResult with an empty service id returns at once
RecordNoop(serviceId, rawResult) ==
  /\ cyclePc = "none"
  /\ initialized
  /\ IsEmptyId(serviceId)
  /\ callCount' = callCount + 1
  /\ lastCall' = Call(serviceId, rawResult, FALSE)
  /\ UNCHANGED <<statusData, initialized, statusFile, pendingWrites, now>>
  /\ UNCHANGED execVars
  /\ UNCHANGED orchVars
  /\ UNCHANGED readVars

\* recordCheckResult(serviceId, rawResult), called one millisecond after
\* the previous call
RecordCheckResult(serviceId, rawResult) ==
  /\ cyclePc = "none"
  /\ initialized
  /\ ~IsEmptyId(serviceId)
  /\ now' = now + 1
  /\ RecordAndWrite(serviceId, rawResult, now')
  /\ UNCHANGED <<initialized, statusFile>>
  /\ UNCHANGED execVars
  /\ UNCHANGED orchVars
  /\ UNCHANGED readVars

\* fs.writeFile fails: the recordCheckResult call that made it rejects
WriteFails ==
  \E w \in pendingWrites :
    /\ cyclePc = "none"
    /\ pendingWrites' = pendingWrites \ {w}
    /\ UNCHANGED <<statusData, initialized, statusFile, now, callCount,
                   lastCall>>
    /\ UNCHANGED execVars
    /\ UNCHANGED orchVars
    /\ UNCHANGED readVars

\* lastCheck: null
NullTime == TimeValue("null", IsoString(0))

\* lastResult: null
NullResult ==
  [name |-> Null, stdout |-> Null, stderr |-> Null, checkedAt |-> NullTime,
   status |-> Null, answer |-> Null, message |-> Null,
   responseTime |-> NoNumber, expectedAnswer |-> NoExpected]

\* recentChecks as read from the file: an array, or missing
ArrayOf(items) == [t |-> "array", items |-> items]

NoArray == [t |-> "undefined", items |-> <<>>]

\* an entry as JSON.parse gives it: an object whose fields may be missing
\* (Undefined, NoTime, RawNull, NoArray), or a value that is no object
StoredEntry(status, lastStatus, lastCheck, lastResult, recentChecks) ==
  [t |-> "object", status |-> status, lastStatus |-> lastStatus,
   lastCheck |-> lastCheck, lastResult |-> lastResult,
   recentChecks |-> recentChecks]

NoEntry ==
  [StoredEntry(Undefined, Undefined, NoTime, RawNull, NoArray)
     EXCEPT !.t = "null"]

\* JSON.parse of an entry the store wrote
WrittenEntry(e) ==
  StoredEntry(e.status, Undefined, e.lastCheck,
              IF e.lastResult = NullResult THEN RawNull
              ELSE RawObject(e.lastResult),
              ArrayOf(e.recentChecks))

ParsedEntry(e) == IF "t" \in DOMAIN e THEN e ELSE WrittenEntry(e)

\* #upgradeEntry with the history always synthesized from lastResult
upgradeEntrySynthesized(entry, clock) ==
  LET result == normalizeResult(entry.lastResult, clock)
  IN  [status |-> normalizeStatus(entry.status),
       lastCheck |-> entry.lastCheck,
       lastResult |-> result,
       recentChecks |-> sanitizeRecentChecks(<<RecentCheck(result)>>)]

\* #upgradeEntry(entry)
upgradeEntry(entry, clock) ==
  IF entry.t # "object"
  THEN [status |-> Str(StatusUnknown), lastCheck |-> NullTime,
        lastResult |-> NullResult, recentChecks |-> <<>>]
  ELSE LET hasLastResult == entry.lastResult.t = "object"
           normalizedLastResult == normalizeResult(entry.lastResult, clock)
           statusSource ==
             IF ~IsNullish(entry.status) THEN entry.status
             ELSE IF hasLastResult THEN normalizedLastResult.status
             ELSE IF entry.lastStatus.t = "string" THEN entry.lastStatus
             ELSE Str(StatusError)
           lastCheck ==
             IF entry.lastCheck.t = "string" THEN entry.lastCheck
             ELSE IF hasLastResult THEN normalizedLastResult.checkedAt
             ELSE NullTime
           recentChecks ==
             IF entry.recentChecks.t = "array"
             THEN sanitizeRecentChecks(entry.recentChecks.items)
             ELSE <<>>
           withFallback ==
             IF Len(recentChecks) > 0 \/ ~hasLastResult THEN recentChecks
             ELSE sanitizeRecentChecks(<<RecentCheck(normalizedLastResult)>>)
       IN  [status |-> normalizeStatus(statusSource),
            lastCheck |-> lastCheck,
            lastResult |-> IF hasLastResult THEN normalizedLastResult
                           ELSE NullResult,
            recentChecks |-> withFallback]

\* #loadStatusFile: the document read from disk, entry by entry; {} when
\* there is no file
LoadedData(file, clock) ==
  IF file.exists
  THEN [k \in DOMAIN file.doc |->
          upgradeEntry(ParsedEntry(file.doc[k]), clock)]
  ELSE EmptyData

\* What config/services.json is: "missing", "unreadable", "malformed" (not
\* JSON), the JSON values "null", "number", "array", or a JSON object: with
\* the definitions as its services ("object"), with a checkInterval of its
\* own as well ("objectInterval"), or with services that is not an array
\* ("objectNoServices").
ConfigForms ==
  {"missing", "unreadable", "malformed", "null", "number", "array",
   "object", "objectInterval", "objectNoServices"}

\* nothing was returned yet
NoReturn == [op |-> "none", value |-> <<>>]

\* the fallback of loadConfig
DefaultConfig ==
  [services |-> <<>>, checkInterval |-> Num(300), extra |-> {}]

\* #safeReadJSON(this.paths.config, fallback): the fallback when the file
\* cannot be read or parsed
ConfigReadsFallback(form) == form \in {"missing", "unreadable", "malformed"}

\* `data.services` of loadConfig throws a TypeError when data is null
LoadConfigThrows(form) == form = "null"

\* the value loadConfig returns: {...fallback, ...data, services}
LoadConfigValue(form, defs) ==
  IF ConfigReadsFallback(form) THEN DefaultConfig
  ELSE [services |-> IF form \in {"object", "objectInterval"} THEN defs
                     ELSE <<>>,
        checkInterval |-> IF form = "objectInterval" THEN Num(60)
                          ELSE Num(300),
        extra |-> IF form = "array" THEN {"0"} ELSE {}]

\* loadConfig(): reads config/services.json; there is no #assertInitialized
LoadConfig ==
  /\ lastCall' = [NoCall EXCEPT !.op = "loadConfig",
                                !.threw = LoadConfigThrows(configFile)]
  /\ returned' = IF LoadConfigThrows(configFile) THEN NoReturn
                 ELSE [op |-> "loadConfig",
                       value |-> LoadConfigValue(configFile, config)]
  /\ UNCHANGED <<statusData, initialized, statusFile, pendingWrites, now,
                 callCount>>
  /\ UNCHANGED execVars
  /\ UNCHANGED orchVars
  /\ UNCHANGED configFile

\* a service definition of config/services.json
ServiceDef(id, name, enabled) ==
  [id |-> id, name |-> name, enabled |-> enabled]

\* service.id || service.name
ServiceIdOf(def) == IF IsEmptyId(def.id) THEN def.name ELSE def.id

\* the definitions getAllServicesSummary lists: enabled === true, with an id
Summarized(defs) ==
  SelectSeq(defs, LAMBDA def : def.enabled /\ ~IsEmptyId(ServiceIdOf(def)))

\* a row of getAllServicesSummary for service id: the stored entry, or
\* 'unknown', null and [] when there is none
SummaryRow(id, name, sd) ==
  [id |-> id,
   name |-> name,
   model |-> Null,
   currentStatus |-> IF id.v \in DOMAIN sd THEN sd[id.v].status
                     ELSE Str(StatusUnknown),
   lastCheck |-> IF id.v \in DOMAIN sd THEN sd[id.v].lastCheck
                 ELSE NullTime,
   recentChecks |-> sanitizeRecentChecks(ExistingRecent(sd, id.v))]

\* the first loop of getAllServicesSummary: one row per listed definition,
\* named service.name || serviceId
ConfiguredRows(defs, sd) ==
  LET listed == Summarized(defs)
  IN  [i \in 1..Len(listed) |->
         SummaryRow(ServiceIdOf(listed[i]),
                    IF IsEmptyId(listed[i].name) THEN ServiceIdOf(listed[i])
                    ELSE listed[i].name,
                    sd)]

\* the second loop: the stored ids the first loop has not seen (they
\* follow the configured rows, in the order the entries were created)
OrphanRows(defs, sd) ==
  LET rows == ConfiguredRows(defs, sd)
      seen == {rows[i].id.v : i \in 1..Len(rows)}
  IN  {SummaryRow(Str(k), Str(k), sd) : k \in DOMAIN sd \ seen}

\* getAllServicesSummary() that stores an empty entry for every listed
\* service it finds none for
GetAllServicesSummaryStoring ==
  LET threw == ~initialized \/ LoadConfigThrows(configFile)
      services == LoadConfigValue(configFile, config).services
      rows == ConfiguredRows(services, statusData)
      listed == {rows[i].id.v : i \in 1..Len(rows)}
  IN  /\ lastCall' = [NoCall EXCEPT !.op = "getAllServicesSummary",
                                    !.threw = threw]
      /\ returned' = IF threw THEN NoReturn
                     ELSE [op |-> "getAllServicesSummary",
                           value |->
                             [configured |-> rows,
                              orphans |-> OrphanRows(services, statusData)]]
      /\ statusData' =
           IF threw THEN statusData
           ELSE [k \in DOMAIN statusData \cup listed |->
                   IF k \in DOMAIN statusData THEN statusData[k]
                   ELSE upgradeEntry(NoEntry, now)]
      /\ UNCHANGED <<initialized, statusFile, pendingWrites, now, callCount>>
      /\ UNCHANGED execVars
      /\ UNCHANGED orchVars
      /\ UNCHANGED configFile

\* getAllServicesSummary(): throws before initialize() and when loadConfig
\* throws; reads the configuration and this.statusData
GetAllServicesSummary ==
  LET threw == ~initialized \/ LoadConfigThrows(configFile)
      services == LoadConfigValue(configFile, config).services
  IN  /\ lastCall' = [NoCall EXCEPT !.op = "getAllServicesSummary",
                                    !.threw = threw]
      /\ returned' = IF threw THEN NoReturn
                     ELSE [op |-> "getAllServicesSummary",
                           value |->
                             [configured |->
                                ConfiguredRows(services, statusData),
                              orphans |-> OrphanRows(services, statusData)]]
      /\ UNCHANGED <<statusData, initialized, statusFile, pendingWrites,
                     now, callCount>>
      /\ UNCHANGED execVars
      /\ UNCHANGED orchVars
      /\ UNCHANGED configFile

\* the other operations that read this.statusData
ReadOperations ==
  {"getServiceDetail", "getServiceRecentChecks", "getHealthOverview"}

\* a read operation: #assertInitialized throws before initialize()
ReadOperation(op) ==
  /\ lastCall' = [NoCall EXCEPT !.op = op, !.threw = ~initialized]
  /\ UNCHANGED <<statusData, initialized, statusFile, pendingWrites, now,
                 callCount>>
  /\ UNCHANGED execVars
  /\ UNCHANGED orchVars
  /\ UNCHANGED readVars

\* refreshFromDisk(): this.statusData is replaced by what the status file
\* holds; there is no #assertInitialized
RefreshFromDisk ==
  /\ statusData' = LoadedData(statusFile, now)
  /\ lastCall' = [NoCall EXCEPT !.op = "refreshFromDisk"]
  /\ UNCHANGED <<initialized, statusFile, pendingWrites, now, callCount>>
  /\ UNCHANGED execVars
  /\ UNCHANGED orchVars
  /\ UNCHANGED readVars

(* --------------------------- store: inputs ---------------------------- *)

RawWith(status, checkedAt, responseTime, ans) ==
  RawObject([name |-> ServiceName, stdout |-> Str(<<>>),
             stderr |-> Str(<<>>), checkedAt |-> checkedAt,
             status |-> status, answer |-> ans, message |-> Null,
             responseTime |-> responseTime, expectedAnswer |-> NoExpected])

\* raw status values: recognised, mixed case, padded, legacy, garbage,
\* empty, missing and not a string
RawStatuses ==
  {Str(StatusOk), Str(<<"O", "K">>), Str(<<" ", "o", "k", "\n">>),
   Str(StatusFail), Str(<<"F", "a", "i", "l">>),
   Str(StatusError), Str(StatusTimeout),
   Str(<<"\t", "T", "i", "m", "e", "O", "U", "T", " ">>),
   Str(StatusDegraded), Str(StatusDown), Str(<<"D", "O", "W", "N">>),
   Str(StatusUnknown), Str(<<"o", " ", "k">>), Str(<<"u", "p">>),
   Str(<<>>), Undefined, Null, NumberValue, ObjectValue}

\* the raw results a call made at time clock may carry
RawResults(clock) ==
  {RawWith(st, TimeValue("string", IsoString(clock)), Num(5), Undefined) :
     st \in RawStatuses}
  \cup {RawWith(Str(StatusOk), at, Num(5), Str(<<"2">>)) :
          at \in {TimeValue("string", [ms |-> clock - 1, fmt |-> "date"]),
                  TimeValue("string", [ms |-> 0, fmt |-> "invalid"]),
                  TimeValue("number", IsoString(clock)),
                  NoTime}}
  \cup {RawWith(Str(StatusTimeout), TimeValue("string", IsoString(clock)),
                rt, Undefined) : rt \in {NotANumber, NumericString(5)}}
  \cup {RawNull}

ServiceIds == {ServiceId1, ServiceId2}

EmptyIds == {Str(<<>>), Null, Undefined}

\* the raw result of the call a warm-up run makes at time clock
WarmUpRaw(clock) ==
  RawWith(Str(StatusOk), TimeValue("string", IsoString(clock)), Num(5),
          Str(<<"2">>))

\* the longest history that is not yet full
PreFill == MAX_RECENT_CHECKS - 1

\* a warm-up run is under way: ok results of one service are recorded once
\* a millisecond, each call completed before the next is made
InWarmUp == lastCall.op = "warmup" /\ now < PreFill

\* one call of a warm-up run: recordCheckResult and its write, completed
RecordWarmUp ==
  /\ cyclePc = "none"
  /\ initialized
  /\ callCount = 0
  /\ pendingWrites = {}
  /\ now < PreFill
  /\ IF now = 0 THEN statusData = EmptyData ELSE lastCall.op = "warmup"
  /\ now' = now + 1
  /\ statusData' = RecordedData(statusData, ServiceId1, WarmUpRaw(now'), now')
  /\ statusFile' = [exists |-> TRUE, doc |-> JsonDocument(statusData')]
  /\ lastCall' = [NoCall EXCEPT !.op = "warmup"]
  /\ UNCHANGED <<initialized, pendingWrites, callCount>>
  /\ UNCHANGED execVars
  /\ UNCHANGED orchVars
  /\ UNCHANGED readVars

(* ============================= the monitor ============================ *)

\* #loadEnabledServices: the definitions with enabled set, in file order
EnabledServices(defs) == SelectSeq(defs, LAMBDA def : def.enabled)

\* start() without its `if (!serviceId) continue`
SchedulableUnchecked(defs) ==
  EnabledServices(defs)

\* the definitions start() schedules: the enabled ones that have an id
Schedulable(defs) ==
  SelectSeq(EnabledServices(defs), LAMBDA def : ~IsEmptyId(ServiceIdOf(def)))

NoTasks == [id \in {} |-> 0]

\* a result the executor settles with, stamped with the time it finalized
ResultAt(result, clock) ==
  [result EXCEPT !.checkedAt = TimeValue("string", IsoString(clock))]

\* how checker.check(service) settles: a CheckResult, or a rejection
CycleOutcomes == {"ok", "timeout", "rejected"}

SettledResult(outcome, clock) ==
  IF outcome = "ok"
  THEN RawObject(ResultAt(CheckResult(StatusOk, Str(<<"2">>), Undefined,
                                      <<"2">>), clock))
  ELSE IF outcome = "timeout"
  THEN RawObject(ResultAt(CheckResult(StatusTimeout, Undefined,
                                      ErrorMessage("timed out"), <<>>), clock))
  ELSE RawObject(ResultAt(Fallback("check failed"), clock))

\* a runCheckForService(service) invocation, up to its first await; with no
\* service id it returns at once
NewCycle(def, origin) ==
  [service |-> def,
   origin |-> origin,
   pc |-> IF IsEmptyId(ServiceIdOf(def)) THEN "returned" ELSE "check",
   outcome |-> "pending",
   result |-> RawNull,
   finalizedAt |-> 0,
   write |-> 0,
   snapshot |-> "none"]

(* ------------- monitor: the numbers of the public status --------------- *)
\* JavaScript numbers are IEEE 754 doubles. A positive double is written
\* [m |-> bits, e |-> k]: the bits of its significand, most significant
\* first and at most Precision of them, and the exponent of the last bit;
\* zero has no bits.

Precision == 53

\* the bits of a quotient that are computed before it is rounded: enough
\* for a quotient of 2^-9 or more
DivisionBits == Precision + 11

ZeroDouble == [m |-> <<>>, e |-> 0]

RECURSIVE BitsOf(_)
BitsOf(k) == IF k = 0 THEN <<>> ELSE Append(BitsOf(k \div 2), k % 2)

\* 2^k
RECURSIVE PowerOfTwo(_)
PowerOfTwo(k) == IF k = 0 THEN 1 ELSE 2 * PowerOfTwo(k - 1)

\* the natural number a short sequence of bits writes
RECURSIVE IntOf(_)
IntOf(bits) ==
  IF bits = <<>> THEN 0
  ELSE 2 * IntOf(SubSeq(bits, 1, Len(bits) - 1)) + bits[Len(bits)]

StripZeros(bits) ==
  LET ones == {i \in 1..Len(bits) : bits[i] = 1}
  IN  IF ones = {} THEN <<>> ELSE SubSeq(bits, Min(ones), Len(bits))

\* bits + 1
Increment(bits) ==
  LET zeros == {i \in 1..Len(bits) : bits[i] = 0}
      last == CHOOSE i \in zeros : \A j \in zeros : j <= i
  IN  IF zeros = {} THEN <<1>> \o [i \in 1..Len(bits) |-> 0]
      ELSE [i \in 1..Len(bits) |->
              IF i < last THEN bits[i] ELSE IF i = last THEN 1 ELSE 0]

\* the double nearest to bits * 2^e (plus a part below the last bit when
\* sticky), a tie going to the even significand
RoundDouble(allBits, e, sticky) ==
  LET bits == StripZeros(allBits)
      extra == Len(bits) - Precision
  IN  IF bits = <<>> THEN ZeroDouble
      ELSE IF extra <= 0 THEN [m |-> bits, e |-> e]
      ELSE LET kept == SubSeq(bits, 1, Precision)
               rest == sticky \/ \E i \in (Precision + 2)..Len(bits) :
                                   bits[i] = 1
               up == /\ bits[Precision + 1] = 1
                     /\ rest \/ kept[Precision] = 1
               rounded == IF up THEN Increment(kept) ELSE kept
           IN  IF Len(rounded) > Precision
               THEN [m |-> SubSeq(rounded, 1, Precision), e |-> e + extra + 1]
               ELSE [m |-> rounded, e |-> e + extra]

\* the first bits of r / n after the binary point, for r < n, and what
\* is left of r; the bits are computed one after the other, a long run
\* as two runs of half the length
RECURSIVE FractionBits(_, _, _)
FractionBits(r, n, count) ==
  IF count = 0 THEN [bits |-> <<>>, r |-> r]
  ELSE IF count = 1
  THEN IF 2 * r >= n THEN [bits |-> <<1>>, r |-> 2 * r - n]
       ELSE [bits |-> <<0>>, r |-> 2 * r]
  ELSE LET first == FractionBits(r, n, count \div 2)
           second == FractionBits(first.r, n, count - count \div 2)
       IN  [bits |-> first.bits \o second.bits, r |-> second.r]

\* a / b of two small naturals, b > 0
DivideDouble(a, b) ==
  LET f == FractionBits(a % b, b, DivisionBits)
  IN  RoundDouble(BitsOf(a \div b) \o f.bits, -DivisionBits, f.r # 0)

\* bits * c + carry, as bits of the same length and the carry out of them;
\* a long sequence as its low half and then its high half
RECURSIVE TimesSmall(_, _, _)
TimesSmall(bits, c, carry) ==
  IF bits = <<>> THEN [bits |-> <<>>, carry |-> carry]
  ELSE IF Len(bits) = 1
  THEN [bits |-> <<(bits[1] * c + carry) % 2>>,
        carry |-> (bits[1] * c + carry) \div 2]
  ELSE LET half == Len(bits) \div 2
           low == TimesSmall(SubSeq(bits, half + 1, Len(bits)), c, carry)
           high == TimesSmall(SubSeq(bits, 1, half), c, low.carry)
       IN  IF low.carry = 0 /\ high.carry = 0
           THEN [bits |-> high.bits \o low.bits, carry |-> 0]
           ELSE [bits |-> high.bits \o low.bits, carry |-> high.carry]

\* x * c for a small natural c
MultiplyDouble(x, c) ==
  LET product == TimesSmall(x.m, c, 0)
  IN  RoundDouble(BitsOf(product.carry) \o product.bits, x.e, FALSE)

\* Math.round(x) of a double that is not negative: the nearest integer, a
\* half going up
MathRound(x) ==
  LET whole == Len(x.m) + x.e
  IN  IF x.m = <<>> \/ whole < 0 THEN 0
      ELSE IF x.e >= 0 THEN IntOf(x.m) * PowerOfTwo(x.e)
      ELSE IntOf(SubSeq(x.m, 1, whole)) + x.m[whole + 1]

\* the number k / 10
Tenths(k) == [t |-> "number", tenths |-> k]

\* calculateUptime(recentChecks) of an array
calculateUptime(recentChecks) ==
  IF Len(recentChecks) = 0 THEN Tenths(0)
  ELSE LET successCount ==
             Len(SelectSeq(recentChecks,
                           LAMBDA check : check.status = Str(StatusOk)))
       IN  Tenths(MathRound(MultiplyDouble(
                    MultiplyDouble(
                      DivideDouble(successCount, Len(recentChecks)), 100),
                    10)))

\* the public status file: absent, or generated from the status document
\* the store held at that time
NoPublicStatus == [exists |-> FALSE, data |-> EmptyData]

PublicStatus(sd) == [exists |-> TRUE, data |-> sd]

\* configMap filled from the enabled definitions only
ConfigMapIdsEnabled(defs) ==
  {ServiceIdOf(defs[i]).v :
     i \in {j \in 1..Len(defs) : /\ defs[j].enabled
                                  /\ ~IsEmptyId(ServiceIdOf(defs[j]))}}

\* the ids of configMap: service?.id || service?.name of every definition,
\* enabled or not
ConfigMapIds(defs) ==
  {ServiceIdOf(defs[i]).v :
     i \in {j \in 1..Len(defs) : ~IsEmptyId(ServiceIdOf(defs[j]))}}

\* a row of the public file made from a summary row
PublicRow(summary) ==
  [displayName |-> summary.name,
   status |-> summary.currentStatus,
   lastCheck |-> summary.lastCheck,
   uptime |-> calculateUptime(summary.recentChecks)]

\* the summary rows the loop over summaries keeps: those whose id configMap
\* holds; the rows of the listed definitions, then those of the other
\* stored ids
ListedSummaries(defs, sd) ==
  LET rows == ConfiguredRows(defs, sd)
  IN  [configured |->
         SelectSeq(rows, LAMBDA row : row.id.v \in ConfigMapIds(defs)),
       others |-> {r \in OrphanRows(defs, sd) :
                     r.id.v \in ConfigMapIds(defs)}]

\* publicServices: a row for every summary row kept
PublicServices(defs, sd) ==
  LET kept == ListedSummaries(defs, sd)
  IN  [configured |->
         [i \in 1..Len(kept.configured) |-> PublicRow(kept.configured[i])],
       others |-> {PublicRow(row) : row \in kept.others}]

\* the rows of the public file that satisfy a condition
CountRows(services, Counted(_)) ==
  Len(SelectSeq(services.configured, Counted))
    + Cardinality({row \in services.others : Counted(row)})

\* overall of the public file
Overall(services) ==
  [healthy |-> CountRows(services, LAMBDA row : row.status = Str(StatusOk)),
   unhealthy |->
     CountRows(services,
               LAMBDA row : /\ row.status # Str(StatusOk)
                            /\ row.status # Str(StatusUnknown)),
   unknown |->
     CountRows(services, LAMBDA row : row.status = Str(StatusUnknown)),
   total |-> Len(services.configured) + Cardinality(services.others)]

\* publicData of generatePublicStatus, without its timestamp
PublicData(defs, sd) ==
  [services |-> PublicServices(defs, sd),
   overall |-> Overall(PublicServices(defs, sd))]

\* what the public file holds, once it was written
PublishedData ==
  PublicData(LoadConfigValue(configFile, config).services, publicStatus.data)

\* runChecks() not called yet
NoRun == [state |-> "idle", services |-> <<>>, next |-> 0, cycle |-> 0]

\* the monitor after construction, with the configuration file it reads
MonitorWith(defs, form) ==
  /\ config = defs
  /\ configFile = form
  /\ returned = NoReturn
  /\ claudeConfigInitialized = FALSE
  /\ starts = [s \in 1..MaxStarts |-> "idle"]
  /\ tasks = <<>>
  /\ serviceTasks = NoTasks
  /\ stopped = FALSE
  /\ cycles = <<>>
  /\ microtasks = <<>>
  /\ runChecks = NoRun
  /\ exited = FALSE
  /\ publicStatus = NoPublicStatus

\* the usual case: the file is an object whose services are the definitions
MonitorAt(defs) == MonitorWith(defs, "object")

(* --------------------- monitor: the check cycle ----------------------- *)
\* An event handler (a process event, a timer, a completed file operation)
\* starts only when no continuation of a settled await is left to run.

\* a cron job fires, or a caller invokes runCheckForService(service)
CycleBegins(def, origin) ==
  /\ microtasks = <<>>
  /\ cycles' = Append(cycles, NewCycle(def, origin))
  /\ UNCHANGED <<config, claudeConfigInitialized, starts, tasks,
                 serviceTasks, stopped, microtasks, runChecks, exited,
                 publicStatus>>
  /\ UNCHANGED execVars
  /\ UNCHANGED storeVars
  /\ UNCHANGED readVars

\* checker.check(service) settles: the check of cycle c finalizes, and the
\* continuation of the await is queued
CheckSettles(c, outcome) ==
  /\ microtasks = <<>>
  /\ cycles[c].pc = "check"
  /\ now' = now + 1
  /\ cycles' = [cycles EXCEPT ![c].pc = "settled",
                              ![c].outcome = outcome,
                              ![c].result = SettledResult(outcome, now'),
                              ![c].finalizedAt = now']
  /\ microtasks' = Append(microtasks, c)
  /\ UNCHANGED <<config, claudeConfigInitialized, starts, tasks,
                 serviceTasks, stopped, runChecks, exited, publicStatus>>
  /\ UNCHANGED execVars
  /\ UNCHANGED <<statusData, initialized, statusFile, pendingWrites,
                 callCount, lastCall>>
  /\ UNCHANGED readVars

\* the continuation of cycle c runs: the result is handed to the store; a
\* rejected check, or a failed write of the result, enters the catch block,
\* which records the fallback result
CycleResumes ==
  /\ microtasks # <<>>
  /\ initialized
  /\ LET c == Head(microtasks)
         caught == cycles[c].pc = "writeFailed"
                     \/ cycles[c].outcome = "rejected"
     IN  /\ cycles[c].pc \in {"settled", "writeFailed"}
         /\ RecordAndWrite(ServiceIdOf(cycles[c].service),
                           IF cycles[c].pc = "settled"
                           THEN cycles[c].result
                           ELSE RawObject(ResultAt(Fallback("write failed"),
                                                   now)),
                           now)
         /\ cycles' = [cycles EXCEPT
                         ![c].pc = IF caught THEN "recordFallback"
                                   ELSE "record",
                         ![c].write = callCount + 1]
  /\ microtasks' = Tail(microtasks)
  /\ UNCHANGED <<config, claudeConfigInitialized, starts, tasks,
                 serviceTasks, stopped, runChecks, exited, publicStatus>>
  /\ UNCHANGED execVars
  /\ UNCHANGED <<initialized, statusFile, now>>
  /\ UNCHANGED readVars

\* the fs.writeFile of cycle c completes; runCheckForService goes on to
\* generatePublicStatus
CycleWriteDone(c) ==
  /\ microtasks = <<>>
  /\ cycles[c].pc \in {"record", "recordFallback"}
  /\ \E w \in pendingWrites :
       /\ w.id = cycles[c].write
       /\ statusFile' = [exists |-> TRUE, doc |-> w.payload]
       /\ pendingWrites' = pendingWrites \ {w}
  /\ cycles' = [cycles EXCEPT ![c].pc = "snapshot"]
  /\ UNCHANGED <<config, claudeConfigInitialized, starts, tasks,
                 serviceTasks, stopped, microtasks, runChecks, exited,
                 publicStatus>>
  /\ UNCHANGED execVars
  /\ UNCHANGED <<statusData, initialized, now, callCount, lastCall>>
  /\ UNCHANGED readVars

\* the fs.writeFile of cycle c fails: inside the try block the catch block
\* takes over; inside the catch block runCheckForService rejects
CycleWriteFails(c) ==
  /\ microtasks = <<>>
  /\ cycles[c].pc \in {"record", "recordFallback"}
  /\ \E w \in pendingWrites :
       /\ w.id = cycles[c].write
       /\ pendingWrites' = pendingWrites \ {w}
  /\ now' = now + 1
  /\ IF cycles[c].pc = "record"
     THEN /\ cycles' = [cycles EXCEPT ![c].pc = "writeFailed"]
          /\ microtasks' = Append(microtasks, c)
     ELSE /\ cycles' = [cycles EXCEPT ![c].pc = "failed"]
          /\ UNCHANGED microtasks
  /\ UNCHANGED <<config, claudeConfigInitialized, starts, tasks,
                 serviceTasks, stopped, runChecks, exited, publicStatus>>
  /\ UNCHANGED execVars
  /\ UNCHANGED <<statusData, initialized, statusFile, callCount, lastCall>>
  /\ UNCHANGED readVars

\* generatePublicStatus of cycle c ends: the snapshot is written, or the
\* failure is logged; either way runCheckForService resolves
CycleSnapshot(c, written) ==
  /\ microtasks = <<>>
  /\ cycles[c].pc = "snapshot"
  /\ cycles' = [cycles EXCEPT
                  ![c].pc = "done",
                  ![c].snapshot = IF written THEN "written" ELSE "logged"]
  /\ publicStatus' = IF written THEN PublicStatus(statusData)
                     ELSE publicStatus
  /\ UNCHANGED <<config, claudeConfigInitialized, starts, tasks,
                 serviceTasks, stopped, microtasks, runChecks, exited>>
  /\ UNCHANGED execVars
  /\ UNCHANGED storeVars
  /\ UNCHANGED readVars

\* generatePublicStatus() called by itself: the file is written from the
\* configuration and the summary of the store; whatever is thrown on the
\* way (the store not initialized, the configuration not readable as an
\* object, the file not writable) is caught and logged
GeneratePublicStatus(written) ==
  /\ microtasks = <<>>
  /\ publicStatus' =
       IF written /\ initialized /\ ~LoadConfigThrows(configFile)
       THEN PublicStatus(statusData)
       ELSE publicStatus
  /\ UNCHANGED <<config, claudeConfigInitialized, starts, tasks,
                 serviceTasks, stopped, cycles, microtasks, runChecks,
                 exited>>
  /\ UNCHANGED execVars
  /\ UNCHANGED storeVars
  /\ UNCHANGED readVars

(* ------------------- monitor: start, stop, cron jobs ------------------ *)

\* the cron jobs the registry holds
RegisteredTasks == {serviceTasks[id] : id \in DOMAIN serviceTasks}

\* cron.schedule for each definition, on top of the jobs created before
ScheduledTasks(defs) ==
  [i \in 1..Len(defs) |-> [service |-> defs[i], active |-> TRUE]]

\* this.serviceTasks.set(serviceId, task) for each definition in turn: a
\* later definition with the same id replaces the job of an earlier one
RegistryAfter(registry, defs, base) ==
  LET ids == {ServiceIdOf(defs[i]) : i \in 1..Len(defs)}
      LastOf(id) ==
        CHOOSE i \in 1..Len(defs) :
          /\ ServiceIdOf(defs[i]) = id
          /\ \A j \in 1..Len(defs) : ServiceIdOf(defs[j]) = id => j <= i
  IN  [id \in DOMAIN registry \cup ids |->
         IF id \in ids THEN base + LastOf(id) ELSE registry[id]]

\* an immediate check for the first scheduled definition only
StartupCyclesFirst(defs) ==
  [i \in 1..(IF defs = <<>> THEN 0 ELSE 1) |-> NewCycle(defs[i], "startup")]

\* the immediate runCheckForService(service) of each scheduled definition
StartupCycles(defs) ==
  [i \in 1..Len(defs) |-> NewCycle(defs[i], "startup")]

\* start() is called: with a job in the registry it returns, otherwise it
\* awaits initializeClaudeConfig
StartCall(s) ==
  /\ microtasks = <<>>
  /\ starts[s] = "idle"
  /\ starts' = [starts EXCEPT
                  ![s] = IF DOMAIN serviceTasks # {} THEN "returned"
                         ELSE "bootstrap"]
  /\ stopped' = FALSE
  /\ UNCHANGED <<config, claudeConfigInitialized, tasks, serviceTasks,
                 cycles, microtasks, runChecks, exited, publicStatus>>
  /\ UNCHANGED execVars
  /\ UNCHANGED storeVars
  /\ UNCHANGED readVars

\* initializeClaudeConfig settles: done (at once when it was done before),
\* or failed and rethrown, which rejects start()
StartBootstrapped(s, ok) ==
  /\ microtasks = <<>>
  /\ starts[s] = "bootstrap"
  /\ claudeConfigInitialized => ok
  /\ claudeConfigInitialized' = ok
  /\ starts' = [starts EXCEPT ![s] = IF ok THEN "load" ELSE "rejected"]
  /\ UNCHANGED <<config, tasks, serviceTasks, stopped, cycles, microtasks,
                 runChecks, exited, publicStatus>>
  /\ UNCHANGED execVars
  /\ UNCHANGED storeVars
  /\ UNCHANGED readVars

\* #loadEnabledServices settles and the loop of start() runs: a cron job,
\* a registry entry and an immediate check for every enabled service that
\* has an id; start() then calls generatePublicStatus and returns
StartSchedules(s) ==
  /\ microtasks = <<>>
  /\ starts[s] = "load"
  /\ LET defs == Schedulable(config)
     IN  /\ tasks' = tasks \o ScheduledTasks(defs)
         /\ serviceTasks' = RegistryAfter(serviceTasks, defs, Len(tasks))
         /\ cycles' = cycles \o StartupCycles(defs)
  /\ starts' = [starts EXCEPT ![s] = "publishing"]
  /\ UNCHANGED <<config, claudeConfigInitialized, stopped, microtasks,
                 runChecks, exited, publicStatus>>
  /\ UNCHANGED execVars
  /\ UNCHANGED storeVars
  /\ UNCHANGED readVars

\* the generatePublicStatus call of start() ends
StartPublishes(s, written) ==
  /\ microtasks = <<>>
  /\ starts[s] = "publishing"
  /\ starts' = [starts EXCEPT ![s] = "done"]
  /\ publicStatus' = IF written THEN PublicStatus(statusData)
                     ELSE publicStatus
  /\ UNCHANGED <<config, claudeConfigInitialized, tasks, serviceTasks,
                 stopped, cycles, microtasks, runChecks, exited>>
  /\ UNCHANGED execVars
  /\ UNCHANGED storeVars
  /\ UNCHANGED readVars

\* stop(): the jobs of the registry are stopped and the registry cleared
Stop ==
  /\ microtasks = <<>>
  /\ tasks' = [t \in DOMAIN tasks |->
                 IF t \in RegisteredTasks
                 THEN [tasks[t] EXCEPT !.active = FALSE]
                 ELSE tasks[t]]
  /\ serviceTasks' = NoTasks
  /\ stopped' = TRUE
  /\ UNCHANGED <<config, claudeConfigInitialized, starts, cycles,
                 microtasks, runChecks, exited, publicStatus>>
  /\ UNCHANGED execVars
  /\ UNCHANGED storeVars
  /\ UNCHANGED readVars

\* a cron job that was not stopped fires: its callback starts a check
CronFires(t) ==
  /\ tasks[t].active
  /\ CycleBegins(tasks[t].service, "cron")

\* bootstrap() of server.js: the start() it awaits rejected, the error is
\* logged and the process exits
ServerExits ==
  /\ microtasks = <<>>
  /\ starts[1] = "rejected"
  /\ ~exited
  /\ exited' = TRUE
  /\ UNCHANGED <<config, claudeConfigInitialized, starts, tasks,
                 serviceTasks, stopped, cycles, microtasks, runChecks,
                 publicStatus>>
  /\ UNCHANGED execVars
  /\ UNCHANGED storeVars
  /\ UNCHANGED readVars

(* ------------------------- monitor: runChecks ------------------------- *)

\* runChecks() is called and awaits #loadEnabledServices
RunChecksCall ==
  /\ microtasks = <<>>
  /\ runChecks.state = "idle"
  /\ runChecks' = [runChecks EXCEPT !.state = "loading"]
  /\ UNCHANGED <<config, claudeConfigInitialized, starts, tasks,
                 serviceTasks, stopped, cycles, microtasks, exited,
                 publicStatus>>
  /\ UNCHANGED execVars
  /\ UNCHANGED storeVars
  /\ UNCHANGED readVars

\* the enabled services are loaded: with none, the public status is
\* generated and runChecks returns; otherwise the first service is checked
RunChecksLoaded(written) ==
  /\ microtasks = <<>>
  /\ runChecks.state = "loading"
  /\ LET services == EnabledServices(config)
     IN  IF services = <<>>
         THEN /\ runChecks' = [runChecks EXCEPT !.state = "done"]
              /\ publicStatus' = IF written THEN PublicStatus(statusData)
                                 ELSE publicStatus
              /\ UNCHANGED cycles
         ELSE /\ written
              /\ runChecks' = [state |-> "running", services |-> services,
                               next |-> 1, cycle |-> Len(cycles) + 1]
              /\ cycles' = Append(cycles, NewCycle(services[1], "manual"))
              /\ UNCHANGED publicStatus
  /\ UNCHANGED <<config, claudeConfigInitialized, starts, tasks,
                 serviceTasks, stopped, microtasks, exited>>
  /\ UNCHANGED execVars
  /\ UNCHANGED storeVars
  /\ UNCHANGED readVars

\* the awaited runCheckForService resolved: the loop goes on to the next
\* service, or runChecks returns after the last one
RunChecksNext ==
  /\ microtasks = <<>>
  /\ runChecks.state = "running"
  /\ cycles[runChecks.cycle].pc \in {"done", "returned"}
  /\ IF runChecks.next = Len(runChecks.services)
     THEN /\ runChecks' = [runChecks EXCEPT !.state = "done"]
          /\ UNCHANGED cycles
     ELSE /\ runChecks' = [runChecks EXCEPT !.next = runChecks.next + 1,
                                            !.cycle = Len(cycles) + 1]
          /\ cycles' = Append(cycles,
                              NewCycle(runChecks.services[runChecks.next + 1],
                                       "manual"))
  /\ UNCHANGED <<config, claudeConfigInitialized, starts, tasks,
                 serviceTasks, stopped, microtasks, exited, publicStatus>>
  /\ UNCHANGED execVars
  /\ UNCHANGED storeVars
  /\ UNCHANGED readVars

\* the awaited runCheckForService rejected: runChecks rejects with it
RunChecksRejects ==
  /\ microtasks = <<>>
  /\ runChecks.state = "running"
  /\ cycles[runChecks.cycle].pc = "failed"
  /\ runChecks' = [runChecks EXCEPT !.state = "rejected"]
  /\ UNCHANGED <<config, claudeConfigInitialized, starts, tasks,
                 serviceTasks, stopped, cycles, microtasks, exited,
                 publicStatus>>
  /\ UNCHANGED execVars
  /\ UNCHANGED storeVars
  /\ UNCHANGED readVars

(* ============================= the server ============================= *)
\* The regular expressions of sanitizeOutput are sequences of elements: a
\* set of characters with the least and the largest number of repetitions
\* (largest 0: any number). Each element's set is disjoint from what may
\* follow it, so the longest run of every element is the match.

LowerLetters ==
  {"a", "b", "c", "d", "e", "f", "g", "h", "i", "j", "k", "l", "m", "n",
   "o", "p", "q", "r", "s", "t", "u", "v", "w", "x", "y", "z"}

UpperLetters ==
  {"A", "B", "C", "D", "E", "F", "G", "H", "I", "J", "K", "L", "M", "N",
   "O", "P", "Q", "R", "S", "T", "U", "V", "W", "X", "Y", "Z"}

DigitChars == {"0", "1", "2", "3", "4", "5", "6", "7", "8", "9"}

\* \s within the characters used
SpaceChars == {" ", "\n", "\r", "\t"}

\* the characters of the texts considered
TextChars ==
  LowerLetters \cup UpperLetters \cup DigitChars \cup SpaceChars
    \cup {"-", "_", "=", ":", "/", ".", "\\", "\"", "'", "{", "}", ","}

\* [a-zA-Z0-9_-]
KeyChars == LowerLetters \cup UpperLetters \cup DigitChars \cup {"_", "-"}

\* [^\s]
NonSpace == TextChars \ SpaceChars

\* a lower-case letter and its capital, for the i flag
BothCases(c) ==
  CASE c = "a" -> {"a", "A"} [] c = "b" -> {"b", "B"} [] c = "c" -> {"c", "C"}
    [] c = "d" -> {"d", "D"} [] c = "e" -> {"e", "E"} [] c = "i" -> {"i", "I"}
    [] c = "k" -> {"k", "K"} [] c = "n" -> {"n", "N"} [] c = "o" -> {"o", "O"}
    [] c = "p" -> {"p", "P"} [] c = "r" -> {"r", "R"} [] c = "s" -> {"s", "S"}
    [] c = "t" -> {"t", "T"} [] c = "w" -> {"w", "W"} [] c = "y" -> {"y", "Y"}
    [] OTHER -> {c}

Times(cs, min, max) == [cs |-> cs, min |-> min, max |-> max]

\* the characters of a literal, one after the other
Literal(text) == [i \in 1..Len(text) |-> Times({text[i]}, 1, 1)]

LiteralAnyCase(text) ==
  [i \in 1..Len(text) |-> Times(BothCases(text[i]), 1, 1)]

\* how many characters from pos on belong to cs
RunOf(text, pos, cs) ==
  LET stops == {i \in pos..Len(text) : text[i] \notin cs}
  IN  IF stops = {} THEN Len(text) - pos + 1 ELSE Min(stops) - pos

\* the position after the match of the elements k.. at pos, or 0
RECURSIVE MatchEnd(_, _, _, _)
MatchEnd(text, pos, pattern, k) ==
  IF k > Len(pattern) THEN pos
  ELSE LET run == RunOf(text, pos, pattern[k].cs)
           taken == IF pattern[k].max = 0 \/ run < pattern[k].max THEN run
                    ELSE pattern[k].max
       IN  IF taken < pattern[k].min THEN 0
           ELSE MatchEnd(text, pos + taken, pattern, k + 1)

\* text.replace(/pattern/g, replacement) from pos on
RECURSIVE ReplaceFrom(_, _, _, _)
ReplaceFrom(text, pos, pattern, replacement) ==
  IF pos > Len(text) THEN <<>>
  ELSE LET end == MatchEnd(text, pos, pattern, 1)
       IN  IF end = 0
           THEN <<text[pos]>> \o ReplaceFrom(text, pos + 1, pattern,
                                             replacement)
           ELSE replacement \o ReplaceFrom(text, end, pattern, replacement)

ReplaceAll(text, pattern, replacement) ==
  ReplaceFrom(text, 1, pattern, replacement)

Redacted == <<"[", "R", "E", "D", "A", "C", "T", "E", "D", "]">>

ApiKeyMark == <<"[", "A", "P", "I", "_", "K", "E", "Y", "]">>

PathMark == <<"[", "P", "A", "T", "H", "]">>

JwtMark == <<"[", "J", "W", "T", "_", "T", "O", "K", "E", "N", "]">>

\* the replacements of sanitizeOutput, in order
Replacements ==
  << [p |-> Literal(<<"s", "k", "-">>) \o <<Times(KeyChars, 20, 0)>>,
      r |-> ApiKeyMark],
     [p |-> Literal(<<"p", "k", "-">>) \o <<Times(KeyChars, 20, 0)>>,
      r |-> ApiKeyMark],
     [p |-> Literal(<<"k", "e", "y", "-">>) \o <<Times(KeyChars, 20, 0)>>,
      r |-> ApiKeyMark],
     [p |-> LiteralAnyCase(<<"a", "p", "i">>) \o <<Times({"_", "-"}, 0, 1)>>
              \o LiteralAnyCase(<<"k", "e", "y">>)
              \o <<Times({"=", ":"}, 1, 1), Times(SpaceChars, 0, 0),
                   Times(NonSpace, 1, 0)>>,
      r |-> <<"a", "p", "i", "_", "k", "e", "y", "=">> \o Redacted],
     [p |-> LiteralAnyCase(<<"t", "o", "k", "e", "n">>)
              \o <<Times({"=", ":"}, 1, 1), Times(SpaceChars, 0, 0),
                   Times(NonSpace, 1, 0)>>,
      r |-> <<"t", "o", "k", "e", "n", "=">> \o Redacted],
     [p |-> LiteralAnyCase(<<"b", "e", "a", "r", "e", "r">>)
              \o <<Times(SpaceChars, 1, 0), Times(NonSpace, 1, 0)>>,
      r |-> <<"B", "e", "a", "r", "e", "r", " ">> \o Redacted],
     [p |-> Literal(<<"/", "h", "o", "m", "e", "/">>)
              \o <<Times(NonSpace, 0, 0)>>,
      r |-> PathMark],
     [p |-> Literal(<<"/", "U", "s", "e", "r", "s", "/">>)
              \o <<Times(NonSpace, 0, 0)>>,
      r |-> PathMark],
     [p |-> Literal(<<"/", "w", "o", "r", "k", "s", "p", "a", "c", "e", "/">>)
              \o <<Times(NonSpace, 0, 0)>>,
      r |-> PathMark],
     [p |-> Literal(<<"/", ".", "c", "l", "a", "u", "d", "e", "/">>)
              \o <<Times(NonSpace, 0, 0)>>,
      r |-> PathMark],
     [p |-> <<Times(UpperLetters, 1, 1)>> \o Literal(<<":", "\\">>)
              \o <<Times(NonSpace, 0, 0)>>,
      r |-> PathMark],
     [p |-> Literal(<<"c", "d">>)
              \o <<Times(SpaceChars, 1, 0), Times({"\""}, 1, 1),
                   Times(TextChars \ {"\""}, 1, 0), Times({"\""}, 1, 1)>>,
      r |-> <<"c", "d", " ", "\"">> \o PathMark \o <<"\"">>],
     [p |-> Literal(<<"c", "d">>)
              \o <<Times(SpaceChars, 1, 0), Times({"'"}, 1, 1),
                   Times(TextChars \ {"'"}, 1, 0), Times({"'"}, 1, 1)>>,
      r |-> <<"c", "d", " ", "'">> \o PathMark \o <<"'">>],
     [p |-> LiteralAnyCase(<<"p", "a", "s", "s", "w", "o", "r", "d">>)
              \o <<Times({"=", ":"}, 1, 1), Times(NonSpace, 1, 0)>>,
      r |-> <<"P", "A", "S", "S", "W", "O", "R", "D", "=">> \o Redacted],
     [p |-> LiteralAnyCase(<<"s", "e", "c", "r", "e", "t">>)
              \o <<Times({"=", ":"}, 1, 1), Times(NonSpace, 1, 0)>>,
      r |-> <<"S", "E", "C", "R", "E", "T", "=">> \o Redacted],
     [p |-> Literal(<<"e", "y", "J">>)
              \o <<Times(KeyChars, 1, 0), Times({"."}, 1, 1),
                   Times(KeyChars, 1, 0), Times({"."}, 1, 1),
                   Times(KeyChars, 1, 0)>>,
      r |-> JwtMark] >>

\* the first k replacements applied to the text
RECURSIVE ReplacedBy(_, _)
ReplacedBy(text, k) ==
  IF k = 0 THEN text
  ELSE ReplaceAll(ReplacedBy(text, k - 1), Replacements[k].p,
                  Replacements[k].r)

\* sanitizeOutput(text)
sanitizeOutput(text) ==
  IF text.t # "string" \/ text.v = <<>> THEN text
  ELSE Str(ReplacedBy(text.v, Len(Replacements)))

\* getServiceDetail(serviceId) of an initialized store
ServiceDetail(sd, serviceId) ==
  IF IsEmptyId(serviceId) \/ serviceId.v \notin DOMAIN sd THEN Null
  ELSE [t |-> "object",
        serviceId |-> serviceId,
        lastCheck |-> sd[serviceId.v].lastCheck,
        result |-> sd[serviceId.v].lastResult]

\* GET /api/services/:id/detail: 500 when the store throws, 404 without a
\* detail, otherwise the detail with stdout, stderr and message sanitized
DetailRequest(id) ==
  LET detail == ServiceDetail(statusData, id)
  IN  /\ lastCall' = [NoCall EXCEPT !.op = "getServiceDetail",
                                    !.serviceId = id,
                                    !.threw = ~initialized]
      /\ returned' =
           [op |-> "GET detail",
            value |->
              IF ~initialized THEN [code |-> 500, body |-> Null]
              ELSE IF detail = Null THEN [code |-> 404, body |-> Null]
              ELSE [code |-> 200,
                    body |->
                      [detail EXCEPT
                         !.result.stdout = sanitizeOutput(@),
                         !.result.stderr = sanitizeOutput(@),
                         !.result.message =
                           IF IsNullish(@) \/ @.v = <<>> THEN Null
                           ELSE sanitizeOutput(@)]]]
      /\ UNCHANGED <<statusData, initialized, statusFile, pendingWrites,
                     now, callCount>>
      /\ UNCHANGED execVars
      /\ UNCHANGED orchVars
      /\ UNCHANGED configFile

(* --------------------------- specifications --------------------------- *)

Service(t, command, expectedAnswer, timeout) ==
  [t |-> t, command |-> command, expectedAnswer |-> expectedAnswer,
   timeout |-> timeout]

NoService == Service("null", Undefined, NoExpected, NoNumber)

IdleExec(svc, cycle) ==
  /\ service = svc
  /\ pc = "idle"
  /\ promise = [state |-> "pending", value |-> <<>>]
  /\ finalizeLog = <<>>
  /\ proc = NoProc
  /\ child = NoChild
  /\ timeoutHandle = "null"
  /\ forceKillTimer = "null"
  /\ timedOut = FALSE
  /\ stdout = <<>>
  /\ signals = <<>>
  /\ cyclePc = cycle

StoreAt(init) ==
  /\ statusData = EmptyData
  /\ initialized = init
  /\ statusFile = NoFile
  /\ pendingWrites = {}
  /\ now = 0
  /\ callCount = 0
  /\ lastCall = NoCall

\* ---- the executor: one check() call, and the cycle that records it ----

ExecExpected ==
  {NoExpected, OneExpected(Lit(<<"2">>)), OneExpected(Re("2", "star"))}

ExecCommands == {Undefined, Str(<<" ">>), Str(<<"p">>)}

ExecServices ==
  {NoService, Service("string", Undefined, NoExpected, NoNumber)}
  \cup {Service("object", c, e, t) :
          c \in ExecCommands, e \in ExecExpected, t \in {NoNumber, Num(50)}}

ExecOutputs == Strings({"2", "\n"}, MaxOut)

\* a service handed to check() directly may be anything; the cycle of
\* runCheckForService runs for a service object of the configuration
InitExec ==
  \E svc \in ExecServices :
    /\ IdleExec(svc, IF svc.t = "object" THEN "check" ELSE "none")
    /\ StoreAt(TRUE)
    /\ MonitorAt(<<>>)

TimeoutFires == TimeoutAfterExit \/ TimeoutKill \/ TimeoutKillFails

ForceKillFires == ForceKillAfterExit \/ ForceKill \/ ForceKillFails

NextExec ==
  \/ CheckRejects
  \/ CheckEmptyCommand
  \/ CheckSpawnThrows
  \/ \E output \in ExecOutputs, ignores \in BOOLEAN, held \in BOOLEAN :
       CheckSpawns("ok", output, ignores, held)
  \/ CheckSpawns("asyncError", <<>>, FALSE, FALSE)
  \/ SpawnError
  \/ StdoutData
  \/ ProcExitSelf
  \/ ProcKilled
  \/ PipesRelease
  \/ ProcClose
  \/ TimeoutFires
  \/ ForceKillFires
  \/ MonitorRecord
  \/ WriteDone
  \/ MonitorCatchesWriteFailure
  \/ MonitorWriteFailsAgain

SpecExec == InitExec /\ [][NextExec]_vars

\* The steps of a check that are bound to happen: check() runs up to the
\* spawn, the event loop runs every timer that is due and every handler
\* whose event has arrived, and the operating system ends a process that
\* was sent a signal it does not ignore.  Nothing makes a probe end by
\* itself, print, or a descendant close the pipes it inherited.
Scheduled ==
  \/ CheckRejects
  \/ CheckEmptyCommand
  \/ CheckSpawnThrows
  \/ \E output \in ExecOutputs, ignores \in BOOLEAN, held \in BOOLEAN :
       CheckSpawns("ok", output, ignores, held)
  \/ CheckSpawns("asyncError", <<>>, FALSE, FALSE)
  \/ SpawnError
  \/ ProcKilled
  \/ ProcClose
  \/ TimeoutFires
  \/ ForceKillFires

\* No step of a check can be taken twice, so a check goes on for ever only
\* by stopping; fairness of Scheduled as a whole then says that it stops
\* only where none of these steps is possible.
FairSpecExec == SpecExec /\ WF_vars(Scheduled)

\* ---- the answer of a probe that prints, exits 0 and is closed --------

AnswerExpected ==
  {NoExpected,
   OneExpected(Lit(<<"2">>)), OneExpected(Lit(<<" ", "2", "\n">>)),
   OneExpected(Lit(<<"2", ".">>)), OneExpected(Lit(<<".">>)),
   OneExpected(Lit(<<>>)), OneExpected(Lit(<<"2", " ", "2">>)),
   OneExpected(Re("2", "one")), OneExpected(Re("2", "star")),
   OneExpected(Re(".", "plus")),
   ListExpected(<<>>), ListExpected(<<Lit(<<>>)>>),
   ListExpected(<<Lit(<<".">>), Lit(<<"2">>)>>),
   ListExpected(<<Lit(<<>>), Re(".", "one"), Lit(<<"2">>)>>)}

AnswerOutputs == Strings({"2", ".", " ", "\n", "\r"}, MaxText)

InitAnswer ==
  \E e \in AnswerExpected :
    /\ IdleExec(Service("object", Str(<<"p">>), e, NoNumber), "none")
    /\ StoreAt(TRUE)
    /\ MonitorAt(<<>>)

NextAnswer ==
  \/ \E output \in AnswerOutputs : CheckSpawns("ok", output, FALSE, FALSE)
  \/ StdoutData
  \/ ProcExitWith("0", "null")
  \/ ProcClose

SpecAnswer == InitAnswer /\ [][NextAnswer]_vars

\* ---- the store: calls of its operations, the writes overlapping -----

\* the raw results of the store specification: an executor's ok result,
\* a legacy status with a timestamp in another format that lies before
\* the previous call, no object at all, a timeout whose response time is
\* not a number
StoreRaws(clock) ==
  {WarmUpRaw(clock),
   RawWith(Str(<<"D", "O", "W", "N">>),
           TimeValue("string", [ms |-> clock - 2, fmt |-> "date"]),
           Num(5), Undefined),
   RawNull,
   RawWith(Str(StatusTimeout), TimeValue("string", IsoString(clock)),
           NotANumber, Undefined)}

InitStore ==
  IdleExec(NoService, "none") /\ StoreAt(FALSE) /\ MonitorAt(<<>>)

NextStore ==
  \/ RecordWarmUp
  \/ ~InWarmUp /\ Initialize
  \/ /\ callCount < MaxCalls
     /\ \E serviceId \in ServiceIds \cup EmptyIds :
          RecordThrows(serviceId, RawNull)
  \/ /\ callCount < MaxCalls
     /\ ~InWarmUp
     /\ \E serviceId \in EmptyIds : RecordNoop(serviceId, RawNull)
  \/ /\ callCount < MaxCalls
     /\ ~InWarmUp
     /\ \E serviceId \in ServiceIds :
          \E rawResult \in StoreRaws(now + 1) :
            RecordCheckResult(serviceId, rawResult)
  \/ WriteDone
  \/ WriteFails

SpecStore == InitStore /\ [][NextStore]_vars

\* ---- the store: one call with any raw result ------------------------

NextStatus ==
  \/ Initialize
  \/ /\ callCount < MaxStatusCalls
     /\ \E serviceId \in ServiceIds :
          \E rawResult \in RawResults(now + 1) :
            RecordCheckResult(serviceId, rawResult)
  \/ WriteDone
  \/ WriteFails

SpecStatus == InitStore /\ [][NextStatus]_vars

\* ---- the store: overlapping calls whose writes all succeed ----------

InitOverlap ==
  IdleExec(NoService, "none") /\ StoreAt(TRUE) /\ MonitorAt(<<>>)

NextOverlap ==
  \/ /\ callCount < MaxCalls
     /\ \E serviceId \in ServiceIds :
          \E rawResult \in StoreRaws(now + 1) :
            RecordCheckResult(serviceId, rawResult)
  \/ WriteDone

SpecOverlap == InitOverlap /\ [][NextOverlap]_vars

\* ---- the monitor: check cycles of the configured services overlapping ----

Def1 == ServiceDef(ServiceId1, Str(<<"A">>), TRUE)

Def2 == ServiceDef(ServiceId2, Str(<<"B">>), TRUE)

CycleConfigs == {<<Def1>>, <<Def1, Def2>>}

InitCycles ==
  \E defs \in CycleConfigs :
    IdleExec(NoService, "none") /\ StoreAt(TRUE) /\ MonitorAt(defs)

CycleSteps ==
  \/ \E c \in 1..Len(cycles) :
       \E outcome \in CycleOutcomes : CheckSettles(c, outcome)
  \/ CycleResumes
  \/ \E c \in 1..Len(cycles) : CycleWriteDone(c)
  \/ \E c \in 1..Len(cycles) : CycleWriteFails(c)
  \/ \E c \in 1..Len(cycles) :
       \E written \in BOOLEAN : CycleSnapshot(c, written)

NextCycles ==
  \/ /\ Len(cycles) < MaxCycles
     /\ \E i \in 1..Len(Schedulable(config)) :
          CycleBegins(Schedulable(config)[i], "cron")
  \/ CycleSteps

SpecCycles == InitCycles /\ [][NextCycles]_vars

\* the same cycles when every write and every snapshot succeeds
NextOrder ==
  \/ /\ Len(cycles) < MaxCycles
     /\ \E i \in 1..Len(Schedulable(config)) :
          CycleBegins(Schedulable(config)[i], "cron")
  \/ \E c \in 1..Len(cycles) :
       \E outcome \in CycleOutcomes : CheckSettles(c, outcome)
  \/ CycleResumes
  \/ \E c \in 1..Len(cycles) : CycleWriteDone(c)
  \/ \E c \in 1..Len(cycles) : CycleSnapshot(c, TRUE)

SpecOrder == InitCycles /\ [][NextOrder]_vars

\* ---- the monitor: start(), stop() and the cron jobs ----
\* The checks the jobs start stay in flight here; SpecCycles follows them.

\* a second definition with the id of Def1
Def1b == ServiceDef(ServiceId1, Str(<<"B">>), TRUE)

DefOff == ServiceDef(ServiceId2, Str(<<"B">>), FALSE)

DefNoId == ServiceDef(Undefined, Undefined, TRUE)

ScheduleConfigs ==
  {<<Def1>>, <<Def1, Def2>>, <<Def1, Def1b>>, <<DefOff, Def1>>,
   <<DefNoId, Def1>>}

InitSchedule ==
  \E defs \in ScheduleConfigs :
    IdleExec(NoService, "none") /\ StoreAt(TRUE) /\ MonitorAt(defs)

\* the cron firings of one behaviour are bounded by MaxCycles
CronCycles == SelectSeq(cycles, LAMBDA cycle : cycle.origin = "cron")

NextSchedule ==
  \/ ~exited /\ \E s \in 1..MaxStarts : StartCall(s)
  \/ /\ ~exited
     /\ \E s \in 1..MaxStarts : \E ok \in BOOLEAN : StartBootstrapped(s, ok)
  \/ ~exited /\ \E s \in 1..MaxStarts : StartSchedules(s)
  \/ /\ ~exited
     /\ \E s \in 1..MaxStarts :
          \E written \in BOOLEAN : StartPublishes(s, written)
  \/ ~exited /\ Stop
  \/ /\ ~exited
     /\ Len(CronCycles) < MaxCycles
     /\ \E t \in 1..Len(tasks) : CronFires(t)
  \/ ServerExits

SpecSchedule == InitSchedule /\ [][NextSchedule]_vars

\* ---- the monitor: one runChecks() call and the cycles it runs ----

RunConfigs ==
  {<<Def1, Def2>>, <<DefNoId, Def1>>, <<DefOff, Def1>>, <<DefOff>>}

InitRunChecks ==
  \E defs \in RunConfigs :
    IdleExec(NoService, "none") /\ StoreAt(TRUE) /\ MonitorAt(defs)

NextRunChecks ==
  \/ RunChecksCall
  \/ \E written \in BOOLEAN : RunChecksLoaded(written)
  \/ RunChecksNext
  \/ RunChecksRejects
  \/ CycleSteps

SpecRunChecks == InitRunChecks /\ [][NextRunChecks]_vars

\* ---- the store: operations called before and after initialize() ----

\* the document a previous run of the server left in data/status.json
PreviousRun ==
  RecordedData(EmptyData, ServiceId1, SettledResult("ok", 0), 0)

InitGuard ==
  /\ IdleExec(NoService, "none")
  /\ MonitorAt(<<>>)
  /\ statusData = EmptyData
  /\ initialized = FALSE
  /\ pendingWrites = {}
  /\ now = 0
  /\ callCount = 0
  /\ lastCall = NoCall
  /\ statusFile \in {NoFile,
                     [exists |-> TRUE, doc |-> JsonDocument(PreviousRun)]}

NextGuard ==
  \/ Initialize
  \/ LoadConfig
  \/ GetAllServicesSummary
  \/ \E op \in ReadOperations : ReadOperation(op)
  \/ RefreshFromDisk
  \/ /\ callCount < MaxCalls
     /\ \E serviceId \in ServiceIds : RecordThrows(serviceId, RawNull)
  \/ /\ callCount < MaxCalls
     /\ \E serviceId \in ServiceIds :
          \E rawResult \in StoreRaws(now + 1) :
            RecordCheckResult(serviceId, rawResult)
  \/ WriteDone

SpecGuard == InitGuard /\ [][NextGuard]_vars

\* ---- the store: loadConfig and getAllServicesSummary over every form of
\* the configuration file, between recorded results ----

\* the definitions the file holds when it is an object with services
ReadConfigs(form) ==
  IF form \in {"object", "objectInterval"}
  THEN {<<Def1>>, <<Def1, Def2>>, <<Def1, Def1b>>, <<DefOff, Def1>>,
        <<DefNoId, Def1>>}
  ELSE {<<>>}

InitReads ==
  \E form \in ConfigForms :
    \E defs \in ReadConfigs(form) :
      /\ IdleExec(NoService, "none")
      /\ StoreAt(TRUE)
      /\ MonitorWith(defs, form)

NextReads ==
  \/ LoadConfig
  \/ GetAllServicesSummary
  \/ /\ callCount < MaxStatusCalls
     /\ \E serviceId \in ServiceIds :
          \E rawResult \in StoreRaws(now + 1) :
            RecordCheckResult(serviceId, rawResult)
  \/ WriteDone

SpecReads == InitReads /\ [][NextReads]_vars

\* ---- the monitor: the public file generated between recorded results,
\* over every form of the configuration file ----

NextPublic ==
  \/ /\ callCount < MaxCalls
     /\ \E serviceId \in ServiceIds :
          \E rawResult \in StoreRaws(now + 1) :
            RecordCheckResult(serviceId, rawResult)
  \/ WriteDone
  \/ \E written \in BOOLEAN : GeneratePublicStatus(written)

SpecPublic == InitReads /\ [][NextPublic]_vars

\* ---- the store: recorded results, written, and reloaded from disk ----

NextRoundTrip ==
  \/ /\ callCount < MaxCalls
     /\ \E serviceId \in ServiceIds :
          \E rawResult \in StoreRaws(now + 1) :
            RecordCheckResult(serviceId, rawResult)
  \/ WriteDone
  \/ RefreshFromDisk

SpecRoundTrip == InitOverlap /\ [][NextRoundTrip]_vars

\* ---- the store: a status file of an earlier version is found at startup ----

\* entries in older and in unusable shapes: no object; lastStatus only;
\* lastStatus with a lastResult that carries no status of its own; the
\* current shape; a numeric lastCheck and no recentChecks
LegacyEntries ==
  {NoEntry,
   StoredEntry(Undefined, Str(StatusOk), NoTime, RawNull, NoArray),
   StoredEntry(Undefined, Str(StatusOk), NoTime,
               RawWith(Undefined, TimeValue("string", IsoString(0)), Num(5),
                       Undefined),
               NoArray),
   StoredEntry(Str(StatusFail), Undefined, TimeValue("string", IsoString(0)),
               RawWith(Str(StatusFail), TimeValue("string", IsoString(0)),
                       Num(5), Undefined),
               ArrayOf(<<[timestamp |-> TimeValue("string", IsoString(0)),
                          status |-> Str(StatusFail),
                          responseTime |-> Num(5)]>>)),
   StoredEntry(Str(StatusOk), Undefined, TimeValue("number", IsoString(0)),
               RawWith(Str(StatusOk), TimeValue("string", IsoString(0)),
                       Num(5), Undefined),
               NoArray)}

LegacyFiles ==
  {[exists |-> TRUE, doc |-> [k \in {ServiceId1.v} |-> entry]] :
     entry \in LegacyEntries}

InitUpgrade ==
  /\ IdleExec(NoService, "none")
  /\ MonitorAt(<<>>)
  /\ statusData = EmptyData
  /\ initialized = FALSE
  /\ pendingWrites = {}
  /\ now = 0
  /\ callCount = 0
  /\ lastCall = NoCall
  /\ statusFile \in LegacyFiles \cup {NoFile}

NextUpgrade ==
  \/ Initialize
  \/ RefreshFromDisk
  \/ /\ callCount < MaxStatusCalls
     /\ \E serviceId \in ServiceIds :
          \E rawResult \in StoreRaws(now + 1) :
            RecordCheckResult(serviceId, rawResult)
  \/ WriteDone

SpecUpgrade == InitUpgrade /\ [][NextUpgrade]_vars

\* ---- the store: calls with and without a service id ------------------

NextNoop ==
  \/ /\ callCount < MaxCalls
     /\ \E serviceId \in ServiceIds \cup EmptyIds :
          RecordNoop(serviceId, WarmUpRaw(now + 1))
  \/ /\ callCount < MaxCalls
     /\ \E serviceId \in ServiceIds \cup EmptyIds :
          \E rawResult \in StoreRaws(now + 1) :
            RecordCheckResult(serviceId, rawResult)
  \/ WriteDone

SpecNoop == InitOverlap /\ [][NextNoop]_vars

\* ---- the monitor and the store with a definition that has no id ------

NoIdConfigs == {<<DefNoId, Def1>>, <<Def1, DefNoId>>, <<DefNoId>>}

InitNoId ==
  \E defs \in NoIdConfigs :
    IdleExec(NoService, "none") /\ StoreAt(TRUE) /\ MonitorAt(defs)

\* every write and every snapshot succeeds here, and no cron job fires
NextNoId ==
  \/ StartCall(1)
  \/ \E ok \in BOOLEAN : StartBootstrapped(1, ok)
  \/ StartSchedules(1)
  \/ StartPublishes(1, TRUE)
  \/ RunChecksCall
  \/ RunChecksLoaded(TRUE)
  \/ RunChecksNext
  \/ \E c \in 1..Len(cycles) :
       \E outcome \in {"ok", "rejected"} : CheckSettles(c, outcome)
  \/ CycleResumes
  \/ \E c \in 1..Len(cycles) : CycleWriteDone(c)
  \/ \E c \in 1..Len(cycles) : CycleSnapshot(c, TRUE)
  \/ GetAllServicesSummary

SpecNoId == InitNoId /\ [][NextNoId]_vars

\* ---- the monitor: start() and the checks it begins -------------------
\* No cron job fires here: every check in flight was begun by start().

StartupConfigs ==
  {<<Def1, Def2>>, <<Def1, Def1b>>, <<DefOff, Def1>>, <<DefNoId, Def1>>}

InitStartup ==
  \E defs \in StartupConfigs :
    IdleExec(NoService, "none") /\ StoreAt(TRUE) /\ MonitorAt(defs)

NextStartup ==
  \/ StartCall(1)
  \/ \E ok \in BOOLEAN : StartBootstrapped(1, ok)
  \/ StartSchedules(1)
  \/ \E written \in BOOLEAN : StartPublishes(1, written)
  \/ CycleSteps

\* the executor settles a check that is in flight
Settling ==
  \E c \in 1..Len(cycles) :
    \E outcome \in CycleOutcomes : CheckSettles(c, outcome)

\* the continuation at the head of the microtask queue runs: the steps
\* that take it from the queue are those of CycleResumes
Resuming == microtasks # <<>> /\ microtasks' = Tail(microtasks)

\* a check that was begun settles, and the continuation of its await runs
FairSpecStartup ==
  /\ InitStartup
  /\ [][NextStartup]_vars
  /\ WF_vars(Settling)
  /\ WF_microtasks(Resuming)

\* ---- the monitor: the public status of one service's history --------

\* a history of n checks of which the first k were ok
UptimeHistory(n, k) ==
  [i \in 1..n |->
     [timestamp |-> TimeValue("string", IsoString(i)),
      status |-> IF i <= k THEN Str(StatusOk) ELSE Str(StatusError),
      responseTime |-> Num(5)]]

\* the store after n checks of ServiceId1 were recorded, k of them ok
UptimeData(n, k) ==
  IF n = 0 THEN EmptyData
  ELSE RecordedData(
         PutEntry(EmptyData, ServiceId1.v,
                  [status |-> Null, lastCheck |-> NullTime,
                   lastResult |-> NullResult,
                   recentChecks |-> UptimeHistory(n - 1, k)]),
         ServiceId1,
         RawWith(IF k = n THEN Str(StatusOk) ELSE Str(StatusError),
                 TimeValue("string", IsoString(n)), Num(5), Undefined),
         n)

InitUptime ==
  /\ IdleExec(NoService, "none")
  /\ MonitorAt(<<Def1>>)
  /\ initialized = TRUE
  /\ statusFile = NoFile
  /\ pendingWrites = {}
  /\ callCount = 0
  /\ lastCall = NoCall
  /\ \E n \in 0..MAX_RECENT_CHECKS :
       \E k \in 0..n :
         /\ now = n
         /\ statusData = UptimeData(n, k)

NextUptime == \E written \in BOOLEAN : GeneratePublicStatus(written)

SpecUptime == InitUptime /\ [][NextUptime]_vars

\* ---- the server: the detail of a recorded result that holds a secret --

\* an output and the secret it holds: an API key, a token after token=,
\* the same tokens in a JSON document, a bearer token, a JWT, a path below
\* /home, below /workspace and below root's home directory
SecretOutputs ==
  {[text |-> <<"s", "k", "-">> \o [i \in 1..20 |-> "a"],
    secret |-> <<"s", "k", "-">> \o [i \in 1..20 |-> "a"]],
   [text |-> <<"t", "o", "k", "e", "n", "=", "a", "b">>, secret |-> <<"a", "b">>],
   [text |-> <<"t", "o", "k", "e", "n", "=", "c", "d">>, secret |-> <<"c", "d">>],
   [text |-> <<"{", "\"", "t", "o", "k", "e", "n", "\"", ":", "\"", "a", "b", "\"", "}">>, secret |-> <<"a", "b">>],
   [text |-> <<"{", "\"", "t", "o", "k", "e", "n", "\"", ":", "\"", "c", "d", "\"", "}">>, secret |-> <<"c", "d">>],
   [text |-> <<"B", "e", "a", "r", "e", "r", " ", "a", "b">>, secret |-> <<"a", "b">>],
   [text |-> <<"e", "y", "J", "a", ".", "b", ".", "c">>, secret |-> <<"e", "y", "J", "a", ".", "b", ".", "c">>],
   [text |-> <<"c", "a", "t", " ", "/", "h", "o", "m", "e", "/", "u", "/", "k">>, secret |-> <<"/", "h", "o", "m", "e", "/", "u", "/", "k">>],
   [text |-> <<"/", "w", "o", "r", "k", "s", "p", "a", "c", "e", "/", "k">>, secret |-> <<"/", "w", "o", "r", "k", "s", "p", "a", "c", "e", "/", "k">>],
   [text |-> <<"/", "r", "o", "o", "t", "/", "k">>, secret |-> <<"/", "r", "o", "o", "t", "/", "k">>]}

\* a result of the executor whose stdout, stderr or message is the output
DetailRaws(clock) ==
  {RawObject([WarmUpRaw(clock).f EXCEPT ![field] = Str(output.text)]) :
     field \in {"stdout", "stderr", "message"}, output \in SecretOutputs}

NextDetail ==
  \/ /\ callCount < MaxStatusCalls
     /\ \E serviceId \in ServiceIds :
          \E rawResult \in DetailRaws(now + 1) :
            RecordCheckResult(serviceId, rawResult)
  \/ WriteDone
  \/ \E id \in ServiceIds : DetailRequest(id)

SpecDetail == InitOverlap /\ [][NextDetail]_vars

(* ============================== properties ============================ *)

\* the finalize calls the 'close' handler made
CloseEntries ==
  {finalizeLog[i] : i \in {j \in 1..Len(finalizeLog) :
                             finalizeLog[j].src = "close"}}

\* C1: check(service) never throws or rejects, whatever the service is:
\* once the promise it returned has settled, it is resolved with a
\* CheckResult whose status is ok, fail, error or timeout.
CheckNeverRejects ==
  /\ promise.state # "rejected"
  /\ promise.state = "resolved" =>
       promise.value.status.v \in ALLOWED_STATUSES

\* C2: finalize(result) is reached exactly once for a check that got to
\* spawning: never twice, and a settled check has reached it.
FinalizedExactlyOnce ==
  /\ Len(finalizeLog) <= 1
  /\ (promise.state = "resolved" /\ CommandLine(service.command) # <<>>) =>
       Len(finalizeLog) = 1

\* C3: SIGTERM is sent only by the timeout timer firing on a process that
\* has not exited; SIGKILL is sent only after SIGTERM, on a process that
\* has still not exited; and once the timer has fired on a live process
\* (timedOut) the status returned is timeout.
TimeoutEscalation ==
  /\ \A i \in 1..Len(signals) :
       signals[i].sig = "SIGTERM" =>
         signals[i].live /\ signals[i].timeoutHandle = "armed"
  /\ \A i \in 1..Len(signals) :
       signals[i].sig = "SIGKILL" =>
         /\ signals[i].live
         /\ \E j \in 1..(i - 1) : signals[j].sig = "SIGTERM"
  /\ (timedOut /\ promise.state = "resolved") =>
       promise.value.status = Str(StatusTimeout)

\* the forced kill was sent, and every signal sent was delivered
ForceKilled ==
  /\ \E i \in 1..Len(signals) : signals[i].sig = "SIGKILL"
  /\ \A i \in 1..Len(signals) : signals[i].ok

\* C4: every started check eventually finalizes, and after the timeout and
\* the forced kill its promise is eventually resolved with status timeout.
EveryCheckFinalizes ==
  /\ (pc = "running") ~> (promise.state = "resolved")
  /\ ForceKilled ~> (/\ promise.state = "resolved"
                     /\ promise.value.status = Str(StatusTimeout))

\* C5: when the process has ended and the timeout has not fired, a nonzero
\* exit code or a signal gives status error, no answer and a message that
\* names the exit code or the signal, whatever the output; exit code 0
\* gives ok when an answer is extracted from stdout and fail when none is.
ExitClassification ==
  \A e \in CloseEntries :
    ~e.timedOut =>
      IF e.code # "0"
      THEN /\ e.result.status = Str(StatusError)
           /\ IsNullish(e.result.answer)
           /\ \E j \in 1..Len(e.result.message.v) :
                e.result.message.v[j] =
                  IF e.signal # "null" THEN e.signal ELSE e.code
      ELSE IF IsNullish(extractAnswer(e.out, service.expectedAnswer))
           THEN e.result.status = Str(StatusFail)
           ELSE e.result.status = Str(StatusOk)

\* C5, its case: exit code 1 although the output holds the expected answer
ExitClassificationWitness ==
  \E e \in CloseEntries :
    /\ ~e.timedOut
    /\ e.code = "1"
    /\ e.out = <<"2">>
    /\ service.expectedAnswer = OneExpected(Lit(<<"2">>))

HasAnswerIffOk(result) ==
  (result.status = Str(StatusOk)) <=> ~IsNullish(result.answer)

\* C6: in the CheckResult the executor returns and in every lastResult of
\* the store, the status is ok if and only if the answer is not null (so
\* fail, error and timeout come with a null answer).
OkIffAnswer ==
  /\ promise.state = "resolved" => HasAnswerIffOk(promise.value)
  /\ \A k \in DOMAIN statusData : HasAnswerIffOk(statusData[k].lastResult)

\* some trimmed line of the output equals lit
LineEquals(lit, out) ==
  LET ls == SplitLines(out)
  IN  \E i \in 1..Len(ls) : Trim(ls[i]) = lit

\* lit occurs in the output with no word character next to it on either
\* side: it is not part of a longer run of word characters
SeparateWord(lit, out) ==
  \E i \in 1..(Len(out) - Len(lit) + 1) :
    /\ SubSeq(out, i, i + Len(lit) - 1) = lit
    /\ i = 1 \/ ~IsWordChar(out[i - 1])
    /\ i + Len(lit) > Len(out) \/ ~IsWordChar(out[i + Len(lit)])

\* lit occurs in the output with blanks, or the ends of the output, on
\* both sides: it is a token of its own
SeparateToken(lit, out) ==
  \E i \in 1..(Len(out) - Len(lit) + 1) :
    /\ SubSeq(out, i, i + Len(lit) - 1) = lit
    /\ i = 1 \/ IsSpace(out[i - 1])
    /\ i + Len(lit) > Len(out) \/ IsSpace(out[i + Len(lit)])

\* C7: a literal expected answer (not empty, no blanks around it) matches
\* if and only if some trimmed output line equals it or it occurs in the
\* output as a separate word: it matches when it is a line or a token of
\* its own, it does not match when every occurrence has a word character
\* next to it, and the answer of a match is the literal.
LiteralMatchRule ==
  \A e \in CloseEntries :
    LET expected == service.expectedAnswer
    IN  (/\ expected.kind = "one"
         /\ expected.cs[1].kind = "lit"
         /\ expected.cs[1].s # <<>>
         /\ Trim(expected.cs[1].s) = expected.cs[1].s) =>
          LET lit == expected.cs[1].s
              matched == e.result.status = Str(StatusOk)
          IN  /\ (LineEquals(lit, e.out) \/ SeparateToken(lit, e.out))
                   => matched
              /\ matched =>
                   (LineEquals(lit, e.out) \/ SeparateWord(lit, e.out))
              /\ matched => e.result.answer = Str(lit)

\* the line of the output that holds its first non-blank character
FirstInkLine(out) ==
  LET ink == Min({j \in 1..Len(out) : ~IsSpace(out[j])})
      from == {j \in 1..ink : \A m \in j..ink : out[m] # "\n"}
      upto == {j \in ink..Len(out) : \A m \in ink..j : out[m] # "\n"}
  IN  SubSeq(out, Min(from), Min(from) + Cardinality(from \cup upto) - 1)

\* C8: with no expected answer configured and exit code 0, output with a
\* non-blank line gives status ok and the first non-blank line, trimmed,
\* as the answer; empty or blank output gives status fail and answer null.
NoExpectationAnswer ==
  \A e \in CloseEntries :
    (e.code = "0" /\ ~e.timedOut /\ service.expectedAnswer.kind = "none") =>
      IF \E j \in 1..Len(e.out) : ~IsSpace(e.out[j])
      THEN /\ e.result.status = Str(StatusOk)
           /\ e.result.answer = Str(Trim(FirstInkLine(e.out)))
      ELSE /\ e.result.status = Str(StatusFail)
           /\ e.result.answer = Null

\* C8, its case: a blank line first, then a line with a blank after it
NoExpectationAnswerWitness ==
  \E e \in CloseEntries :
    /\ e.code = "0"
    /\ service.expectedAnswer.kind = "none"
    /\ e.out = <<"\n", "2", " ">>
    /\ e.result.answer = Str(<<"2">>)

\* the status each raw status value is to be stored as
CoercedStatus(raw) ==
  CASE raw \in {Str(StatusOk), Str(<<"O", "K">>), Str(<<" ", "o", "k", "\n">>)}
         -> Str(StatusOk)
    [] raw \in {Str(StatusFail), Str(<<"F", "a", "i", "l">>),
                Str(StatusDegraded), Str(StatusDown),
                Str(<<"D", "O", "W", "N">>)}
         -> Str(StatusFail)
    [] raw \in {Str(StatusTimeout),
                Str(<<"\t", "T", "i", "m", "e", "O", "U", "T", " ">>)}
         -> Str(StatusTimeout)
    [] OTHER -> Str(StatusError)

\* the latest recordCheckResult call recorded a result
Recorded ==
  /\ lastCall.op = "record"
  /\ ~lastCall.threw
  /\ ~IsEmptyId(lastCall.serviceId)

\* C9: whatever the raw status of a result handed to recordCheckResult,
\* the status stored in the entry, in its lastResult and in the appended
\* RecentCheck is one of ok, fail, error, timeout: a recognised value is
\* stored as itself, degraded and down as fail, anything else as error.
StatusCoercion ==
  /\ \A k \in DOMAIN statusData :
       /\ statusData[k].status.v \in ALLOWED_STATUSES
       /\ statusData[k].lastResult.status.v \in ALLOWED_STATUSES
       /\ \A j \in 1..Len(statusData[k].recentChecks) :
            statusData[k].recentChecks[j].status.v \in ALLOWED_STATUSES
  /\ Recorded =>
       LET entry == statusData[lastCall.serviceId.v]
           stored == CoercedStatus(lastCall.status)
       IN  /\ entry.status = stored
           /\ entry.lastResult.status = stored
           /\ entry.recentChecks[Len(entry.recentChecks)].status = stored

\* C9, its case: a legacy status in capitals was recorded
StatusCoercionWitness ==
  /\ Recorded
  /\ lastCall.status = Str(<<"D", "O", "W", "N">>)
  /\ statusData[lastCall.serviceId.v].status = Str(StatusFail)

\* the history new is the history old with one check appended at the end
\* and the oldest items dropped beyond MAX_RECENT_CHECKS
AppendedTo(old, new, check) ==
  LET dropped == Len(old) + 1 - Len(new)
  IN  /\ Len(new) = Min({Len(old) + 1, MAX_RECENT_CHECKS})
      /\ new[Len(new)] = check
      /\ \A j \in 1..(Len(new) - 1) : new[j] = old[j + dropped]

\* C10: no history is ever longer than 90, and each recordCheckResult
\* call leaves the service's history as it was with the new check as its
\* last element, the oldest element dropped when it was full.
RecentChecksBounded ==
  /\ [](\A k \in DOMAIN statusData :
          Len(statusData[k].recentChecks) <= MAX_RECENT_CHECKS)
  /\ [][\A k \in DOMAIN statusData' :
          (k \notin DOMAIN statusData \/ statusData'[k] # statusData[k]) =>
            AppendedTo(ExistingRecent(statusData, k),
                       statusData'[k].recentChecks,
                       [timestamp |-> statusData'[k].lastResult.checkedAt,
                        status |-> statusData'[k].lastResult.status,
                        responseTime |->
                          statusData'[k].lastResult.responseTime])]_vars

\* C10, its case: a full history took one more check and lost its oldest
RecentChecksBoundedWitness ==
  /\ ServiceId1.v \in DOMAIN statusData
  /\ Len(statusData[ServiceId1.v].recentChecks) = MAX_RECENT_CHECKS
  /\ statusData[ServiceId1.v].recentChecks[1].timestamp.ts.ms > 1

\* C11: whatever checkedAt values the raw results carry, every service's
\* recentChecks is ascending by timestamp.
RecentChecksAscending ==
  \A k \in DOMAIN statusData :
    \A j \in 1..(Len(statusData[k].recentChecks) - 1) :
      statusData[k].recentChecks[j].timestamp.ts.ms
        <= statusData[k].recentChecks[j + 1].timestamp.ts.ms

\* C12: when recordCheckResult calls overlap, no update is lost: once all
\* of them have completed, the durable status document equals the
\* in-memory document, which holds every update.
NoLostUpdate ==
  (callCount >= 2 /\ pendingWrites = {}) =>
    /\ statusFile.exists
    /\ statusFile.doc = JsonDocument(statusData)

\* the history of the service cycle c checks
HistoryOf(c) ==
  ExistingRecent(statusData, ServiceIdOf(cycles[c].service).v)

\* where the RecentCheck of cycle c's check stands in that history
CyclePositions(c) ==
  {i \in 1..Len(HistoryOf(c)) :
     HistoryOf(c)[i].timestamp.ts.ms = cycles[c].finalizedAt}

\* the result of cycle c's check has been handed to the store
CycleRecorded(c) == cycles[c].pc \notin {"returned", "check", "settled"}

\* C13: for one service id, when check A finalizes before check B, A's
\* RecentCheck stands before B's in the history, whichever started first.
CompletionOrder ==
  \A a \in 1..Len(cycles) :
    \A b \in 1..Len(cycles) :
      ( /\ ServiceIdOf(cycles[a].service) = ServiceIdOf(cycles[b].service)
        /\ CycleRecorded(a)
        /\ CycleRecorded(b)
        /\ cycles[a].finalizedAt < cycles[b].finalizedAt )
      => /\ CyclePositions(a) # {}
         /\ CyclePositions(b) # {}
         /\ \A i \in CyclePositions(a) :
              \A j \in CyclePositions(b) : i < j

\* the check that started later finalized first, and both are recorded
CompletionOrderWitness ==
  \E a \in 1..Len(cycles) :
    \E b \in 1..Len(cycles) :
      /\ b < a
      /\ ServiceIdOf(cycles[a].service) = ServiceIdOf(cycles[b].service)
      /\ CycleRecorded(a)
      /\ CycleRecorded(b)
      /\ cycles[a].finalizedAt < cycles[b].finalizedAt
      /\ cycles[a].outcome = "ok"
      /\ cycles[b].outcome = "timeout"

\* C16: runCheckForService turns every exception of the executor or of the
\* store into a recorded error result and never rejects.
CycleNeverRejects ==
  \A c \in 1..Len(cycles) : cycles[c].pc # "failed"

\* C17: a check cycle ends only after generatePublicStatus has run for it
\* (written the snapshot, or logged its failure).
SnapshotBeforeCycleEnds ==
  \A c \in 1..Len(cycles) :
    cycles[c].pc \in {"done", "failed"} => cycles[c].snapshot # "none"

\* the jobs of service id that have not been stopped
ActiveTasks(id) ==
  {t \in 1..Len(tasks) :
     tasks[t].active /\ ServiceIdOf(tasks[t].service) = id}

\* C14: whatever start() calls were made and whatever the configuration,
\* there is at most one active job per service id, every active job is held
\* in the serviceTasks registry, and once a start() has scheduled (with no
\* start() in progress and no stop() since) every enabled service has one.
StartIdempotent ==
  /\ \A t \in 1..Len(tasks) : tasks[t].active => t \in RegisteredTasks
  /\ \A t \in 1..Len(tasks) :
       Cardinality(ActiveTasks(ServiceIdOf(tasks[t].service))) <= 1
  /\ ( /\ ~stopped
       /\ \E s \in 1..MaxStarts : starts[s] \in {"publishing", "done"}
       /\ \A s \in 1..MaxStarts : starts[s] \notin {"bootstrap", "load"} )
     => \A i \in 1..Len(Schedulable(config)) :
          Cardinality(ActiveTasks(ServiceIdOf(Schedulable(config)[i]))) = 1

\* C15: once stop() has returned, and until start() is called again, no
\* periodic job is active, so no firing can start a check.
StopCancelsAll ==
  stopped => \A t \in 1..Len(tasks) : ~tasks[t].active

\* C19: a failure of the bootstrap step neither rejects start() nor ends
\* the process.
BootstrapFailureTolerated ==
  /\ ~exited
  /\ \A s \in 1..MaxStarts : starts[s] # "rejected"

\* the services of the cycles runChecks has started, in order
ManualServices ==
  LET manual == SelectSeq(cycles, LAMBDA cycle : cycle.origin = "manual")
  IN  [i \in 1..Len(manual) |-> manual[i].service]

\* C18: runChecks runs one cycle at a time, and when it has ended it has
\* checked every enabled service once, in configuration order, also when a
\* check or a write failed on the way.
RunChecksCoversAll ==
  /\ \A c \in 1..Len(cycles) :
       \A d \in 1..Len(cycles) :
         c < d => cycles[c].pc \in {"returned", "done", "failed"}
  /\ runChecks.state \in {"done", "rejected"}
       => ManualServices = EnabledServices(config)

\* C20: an operation invoked while the store is not initialized throws and
\* leaves the in-memory document and the status file as they were.
FailFastBeforeInitialize ==
  [][(~initialized /\ ~initialized')
       => /\ lastCall'.threw
          /\ statusData' = statusData
          /\ statusFile' = statusFile]_vars

\* C21: loadConfig never throws; services is an array and checkInterval
\* defaults to 300; a missing or malformed file gives the default value.
LoadConfigTotal ==
  lastCall.op = "loadConfig" =>
    /\ ~lastCall.threw
    /\ returned.op = "loadConfig"
    /\ configFile # "objectInterval"
         => returned.value.checkInterval = Num(300)
    /\ ConfigReadsFallback(configFile) => returned.value = DefaultConfig

\* every RecentCheck of history old is still in history new
HistoryKept(old, new) ==
  \A i \in 1..Len(old) : \E j \in 1..Len(new) : new[j] = old[i]

\* C22: no step other than initialize() removes an entry or any of the
\* history it holds.
EntryNeverRemoved ==
  [][lastCall'.op = "initialize"
       \/ \A k \in DOMAIN statusData :
            /\ k \in DOMAIN statusData'
            /\ HistoryKept(statusData[k].recentChecks,
                           ExistingRecent(statusData', k))]_vars

\* C23: reloading the document the store has written for its current
\* entries gives, for each service, the same status, lastCheck and
\* recentChecks as before the reload.
RoundTrip ==
  [][( /\ lastCall'.op = "refreshFromDisk"
       /\ statusFile.exists
       /\ statusFile.doc = JsonDocument(statusData) )
     => /\ DOMAIN statusData' = DOMAIN statusData
        /\ \A k \in DOMAIN statusData :
             /\ statusData'[k].status = statusData[k].status
             /\ statusData'[k].lastCheck = statusData[k].lastCheck
             /\ statusData'[k].recentChecks = statusData[k].recentChecks]_vars

\* two results of one service were recorded and written, and the document
\* was reloaded
RoundTripWitness ==
  /\ lastCall.op = "refreshFromDisk"
  /\ pendingWrites = {}
  /\ statusFile.exists
  /\ statusFile.doc = JsonDocument(statusData)
  /\ ServiceId1.v \in DOMAIN statusData
  /\ Len(statusData[ServiceId1.v].recentChecks) = 2
  /\ statusData[ServiceId1.v].status = Str(StatusFail)

AllowedValues == {Str(st) : st \in ALLOWED_STATUSES}

\* C27: refreshFromDisk turns every stored entry into the current shape
\* without changing what it holds: a recognised status stays, a legacy
\* lastStatus becomes the status, a lastCheck string stays, a missing
\* recentChecks array becomes a one-item history made from lastResult, and
\* the items of a stored history are kept.
UpgradeLossless ==
  [][( /\ lastCall'.op = "refreshFromDisk"
       /\ lastCall' # lastCall \/ statusData' # statusData
       /\ statusFile.exists )
     => \A k \in DOMAIN statusFile.doc :
          LET stored == ParsedEntry(statusFile.doc[k])
              entry == statusData'[k]
          IN  stored.t = "object" =>
                /\ stored.status \in AllowedValues
                     => entry.status = stored.status
                /\ IsNullish(stored.status)
                     /\ stored.lastStatus \in AllowedValues
                     => entry.status = stored.lastStatus
                /\ stored.lastCheck.t = "string"
                     => entry.lastCheck = stored.lastCheck
                /\ stored.recentChecks.t # "array"
                     /\ stored.lastResult.t = "object"
                     => Len(entry.recentChecks) = 1
                /\ stored.recentChecks.t = "array"
                     => HistoryKept(stored.recentChecks.items,
                                    entry.recentChecks)]_vars

\* C25: the summary lists the enabled definitions that have an id, in
\* configuration order, each with its stored entry or the 'unknown'
\* defaults, then every other stored id; no id is listed twice.
SummaryComplete ==
  (lastCall.op = "getAllServicesSummary" /\ ~lastCall.threw) =>
    LET rows == returned.value.configured
        orphans == returned.value.orphans
        listed == Summarized(config)
    IN  /\ Len(rows) = Len(listed)
        /\ \A i \in 1..Len(rows) :
             /\ rows[i].id = ServiceIdOf(listed[i])
             /\ rows[i].id.v \notin DOMAIN statusData
                  => /\ rows[i].currentStatus = Str(StatusUnknown)
                     /\ rows[i].lastCheck = NullTime
                     /\ rows[i].recentChecks = <<>>
             /\ rows[i].id.v \in DOMAIN statusData
                  => /\ rows[i].currentStatus = statusData[rows[i].id.v].status
                     /\ rows[i].recentChecks
                          = statusData[rows[i].id.v].recentChecks
        /\ \A k \in DOMAIN statusData :
             \/ \E i \in 1..Len(rows) : rows[i].id.v = k
             \/ \E row \in orphans : row.id.v = k
        /\ \A i \in 1..Len(rows) :
             /\ \A j \in 1..Len(rows) : rows[i].id = rows[j].id => i = j
             /\ \A row \in orphans : row.id # rows[i].id

\* C26: a getAllServicesSummary call changes neither the in-memory
\* document nor the status file nor the writes in flight, and a call that
\* follows another with no recorded check between returns the same output.
SummaryRepeatable ==
  [][( /\ lastCall'.op = "getAllServicesSummary"
       /\ lastCall' # lastCall \/ returned' # returned )
     => /\ statusData' = statusData
        /\ statusFile' = statusFile
        /\ pendingWrites' = pendingWrites
        /\ (lastCall.op = "getAllServicesSummary" /\ ~lastCall.threw)
             => returned' = returned]_vars

\* a summary was returned that lists a configured service never checked
\* and the stored history of a service that is not configured
SummaryRepeatableWitness ==
  /\ lastCall.op = "getAllServicesSummary"
  /\ ~lastCall.threw
  /\ returned.value.orphans # {}
  /\ \E i \in 1..Len(returned.value.configured) :
       returned.value.configured[i].currentStatus = Str(StatusUnknown)

\* C28: on an initialized store a recordCheckResult call whose service id
\* is the empty string, null or undefined creates and changes no entry and
\* starts no write of the status document.
EmptyIdNoop ==
  [][( /\ lastCall'.op = "record"
       /\ callCount' = callCount + 1
       /\ initialized
       /\ lastCall'.serviceId \in EmptyIds )
     => /\ ~lastCall'.threw
        /\ statusData' = statusData
        /\ statusFile' = statusFile
        /\ pendingWrites' = pendingWrites]_vars

\* a call without a service id returned on a store that holds an entry
EmptyIdNoopWitness ==
  /\ lastCall.op = "record"
  /\ lastCall.serviceId \in EmptyIds
  /\ ~lastCall.threw
  /\ initialized
  /\ statusData # EmptyData

\* the enabled definitions of the configuration that have an id
WithId ==
  SelectSeq(config,
            LAMBDA def : def.enabled /\ ServiceIdOf(def) # Undefined)

\* C29: a definition with neither id nor name gets no job, no check, no
\* recorded result and no summary row, and the other enabled definitions
\* of the configuration are scheduled by start(), checked by a runChecks()
\* that ended and listed by the summary.
NoIdSkipped ==
  /\ \A t \in 1..Len(tasks) : ServiceIdOf(tasks[t].service) # Undefined
  /\ Undefined \notin DOMAIN serviceTasks
  /\ \A c \in 1..Len(cycles) :
       ServiceIdOf(cycles[c].service) = Undefined
         => cycles[c].pc = "returned" /\ cycles[c].write = 0
  /\ DOMAIN statusData \subseteq {ServiceId1.v}
  /\ (lastCall.op = "getAllServicesSummary" /\ ~lastCall.threw)
       => /\ \A i \in 1..Len(returned.value.configured) :
               returned.value.configured[i].id # Undefined
          /\ \A row \in returned.value.orphans : row.id # Undefined
          /\ \A i \in 1..Len(WithId) :
               \E j \in 1..Len(returned.value.configured) :
                 returned.value.configured[j].id = ServiceIdOf(WithId[i])
  /\ starts[1] \in {"publishing", "done"}
       => \A i \in 1..Len(WithId) :
            /\ \E t \in 1..Len(tasks) : tasks[t].service = WithId[i]
            /\ ServiceIdOf(WithId[i]) \in DOMAIN serviceTasks
            /\ \E c \in 1..Len(cycles) :
                 /\ cycles[c].service = WithId[i]
                 /\ cycles[c].origin = "startup"
  /\ runChecks.state = "done"
       => \A i \in 1..Len(WithId) :
            \E c \in 1..Len(cycles) :
              /\ cycles[c].service = WithId[i]
              /\ cycles[c].origin = "manual"
              /\ cycles[c].pc = "done"

\* start() has scheduled and runChecks() has ended on a configuration
\* whose first definition has no id, and the summary lists the other one
NoIdSkippedWitness ==
  /\ config = <<DefNoId, Def1>>
  /\ starts[1] = "done"
  /\ runChecks.state = "done"
  /\ \E c \in 1..Len(cycles) :
       cycles[c].service = DefNoId /\ cycles[c].pc = "returned"
  /\ lastCall.op = "getAllServicesSummary"
  /\ Len(returned.value.configured) = 1
  /\ ServiceId1.v \in DOMAIN statusData

\* the cycles start() began
StartupChecks ==
  SelectSeq(cycles, LAMBDA cycle : cycle.origin = "startup")

\* the stored history of service id holds a check
HasResult(id) ==
  id.v \in DOMAIN statusData /\ statusData[id.v].recentChecks # <<>>

Retained == ExistingRecent(publicStatus.data, ServiceId1.v)

OkCount ==
  Len(SelectSeq(Retained, LAMBDA check : check.status = Str(StatusOk)))

\* C31: the uptime of the public file is round(okCount / total * 1000) / 10
\* over the retained checks of the service, 0 without checks, 100 exactly
\* when all of them are ok, and between 0 and 100.
UptimeFormula ==
  publicStatus.exists =>
    LET uptime == PublishedData.services.configured[1].uptime
        total == Len(Retained)
    IN  /\ total = 0 => uptime = Tenths(0)
        /\ total > 0
             => uptime = Tenths((2000 * OkCount + total) \div (2 * total))
        /\ uptime = Tenths(1000) <=> (total > 0 /\ OkCount = total)
        /\ uptime.tenths \in 0..1000

\* the text holds the part
Contains(text, part) ==
  \E i \in 1..(Len(text) - Len(part) + 1) :
    SubSeq(text, i, i + Len(part) - 1) = part

\* the stored result of the service a detail was returned for
DetailSource == statusData[lastCall.serviceId.v].lastResult

\* C32: the stdout, stderr and message of a returned detail hold no API
\* key, token, JWT or home or workspace path of the stored result.
DetailRedacted ==
  (returned.op = "GET detail" /\ returned.value.code = 200) =>
    \A field \in {"stdout", "stderr", "message"} :
      \A output \in SecretOutputs :
        DetailSource[field] = Str(output.text)
          => ~Contains(returned.value.body.result[field].v, output.secret)

\* C33: no signal is sent to the process of a check that was finalized:
\* whenever the check is finalized neither timer is armed, and every signal
\* was sent while the check was still pending.
NoSignalAfterFinalize ==
  /\ \A i \in 1..Len(signals) : ~signals[i].finalized
  /\ promise.state # "pending"
       => timeoutHandle # "armed" /\ forceKillTimer # "armed"

\* C34: a check whose process exit was recorded (exitCode or signalCode
\* set) before the timeout timer fired is never marked timed out, never
\* gets a signal and is never classified as timeout: the timer callback
\* does nothing then, also when 'close' is delivered after the deadline.
ExitBeforeTimeout ==
  /\ [][(~Alive /\ ~timedOut) =>
          (~timedOut' /\ signals' = signals
             /\ forceKillTimer' = forceKillTimer)]_vars
  /\ [](~timedOut => signals = <<>>)
  /\ []((~timedOut /\ promise.state = "resolved") =>
          promise.value.status # Str(StatusTimeout))

\* C34, its case: the timer fired after the exit, 'close' came after that
ExitBeforeTimeoutWitness ==
  /\ timeoutHandle = "fired"
  /\ ~timedOut
  /\ signals = <<>>
  /\ \E e \in CloseEntries : ~e.timedOut /\ e.result.status = Str(StatusOk)

\* C35: after a recordCheckResult call with a non-empty service id, the
\* entry of that service is consistent: its status is the status of its
\* lastResult and of the last item of its history, and its lastCheck is
\* the checkedAt of its lastResult and the timestamp of that last item.
EntryConsistent ==
  Recorded =>
    LET entry == statusData[lastCall.serviceId.v]
        last == entry.recentChecks[Len(entry.recentChecks)]
    IN  /\ entry.recentChecks # <<>>
        /\ entry.status = entry.lastResult.status
        /\ entry.status = last.status
        /\ entry.lastCheck = entry.lastResult.checkedAt
        /\ entry.lastCheck = last.timestamp

\* C35, its case: a result was recorded whose checkedAt, written in
\* another date format, is earlier than the time of the call
EntryConsistentWitness ==
  /\ Recorded
  /\ statusData[lastCall.serviceId.v].lastCheck
       = TimeValue("string", IsoString(now - 1))
  /\ statusData[lastCall.serviceId.v].recentChecks[1].timestamp
       = TimeValue("string", IsoString(now - 1))

\* C36: recordCheckResult(serviceId, ...) changes the entry of serviceId
\* only: in memory the entry of every other service id stays as it was,
\* also while the writes of earlier calls are still under way.
OtherEntriesKept ==
  [][\A k \in DOMAIN statusData :
       /\ k \in DOMAIN statusData'
       /\ statusData'[k] # statusData[k] =>
            /\ callCount' = callCount + 1
            /\ lastCall'.op = "record"
            /\ lastCall'.serviceId.v = k]_vars

\* C36, its case: a result of the second service was recorded while the
\* write of the first service's call had not completed
OtherEntriesKeptWitness ==
  /\ Recorded
  /\ lastCall.serviceId = ServiceId2
  /\ ServiceId1.v \in DOMAIN statusData
  /\ Cardinality(pendingWrites) = 2

\* the cycles of service id that have handed a result to the store
RecordedCycles(id) ==
  {c \in 1..Len(cycles) :
     ServiceIdOf(cycles[c].service) = id /\ CycleRecorded(c)}

\* C37: every runCheckForService cycle of a service with an identifier
\* appends exactly one RecentCheck to the history of that service, never
\* none and never two, also when the write of the result fails after the
\* entry was updated in memory and the fallback result is recorded too.
OneCheckPerCycle ==
  \A id \in ServiceIds :
    Len(ExistingRecent(statusData, id.v)) = Cardinality(RecordedCycles(id))

\* the cycles of service id whose check has not settled
ChecksInFlight(id) ==
  {c \in 1..Len(cycles) :
     ServiceIdOf(cycles[c].service) = id /\ cycles[c].pc = "check"}

\* C38: at most one check of a service id is in flight at any time: the
\* firings of its job, the startup check and a manual runChecks() never
\* probe the same service concurrently.
OneCheckInFlight ==
  \A id \in ServiceIds : Cardinality(ChecksInFlight(id)) <= 1

\* the ids of the definitions of the configuration, enabled or not
ConfiguredIdsOf(defs) ==
  {k \in {ServiceId1.v, ServiceId2.v} :
     \E i \in 1..Len(defs) : ServiceIdOf(defs[i]) = Str(k)}

\* every row getAllServicesSummary returns
AllSummaries(defs, sd) ==
  {ConfiguredRows(defs, sd)[i] : i \in 1..Len(ConfiguredRows(defs, sd))}
    \cup OrphanRows(defs, sd)

\* the summary rows behind the rows of the public file
PublishedSummaries ==
  ListedSummaries(LoadConfigValue(configFile, config).services,
                  publicStatus.data)

\* the ids the rows of the public file stand for
PublishedIds ==
  {PublishedSummaries.configured[i].id.v :
     i \in 1..Len(PublishedSummaries.configured)}
    \cup {row.id.v : row \in PublishedSummaries.others}

\* C39: the public file lists a summary row exactly when the id of the row
\* is in the configuration, enabled or not: the stored history of an id the
\* configuration lacks is left out, that of a configured but disabled
\* service is listed, overall.total is the number of rows listed and
\* healthy + unhealthy + unknown = total.
PublicRowsConfigured ==
  publicStatus.exists =>
    LET defs == LoadConfigValue(configFile, config).services
        sd == publicStatus.data
        summaries == AllSummaries(defs, sd)
    IN  /\ \A row \in summaries :
             row.id.v \in PublishedIds <=> row.id.v \in ConfiguredIdsOf(defs)
        /\ \A k \in DOMAIN sd :
             k \in PublishedIds <=> k \in ConfiguredIdsOf(defs)
        /\ Len(PublishedData.services.configured)
             = Len(PublishedSummaries.configured)
        /\ Cardinality(PublishedData.services.others)
             = Cardinality(PublishedSummaries.others)
        /\ PublishedData.overall.total
             = Len(PublishedData.services.configured)
                 + Cardinality(PublishedData.services.others)
        /\ PublishedData.overall.healthy + PublishedData.overall.unhealthy
             + PublishedData.overall.unknown = PublishedData.overall.total

\* C39, its case: the file was generated while the store held a history of
\* a disabled service and the first service had no result yet
PublicRowsConfiguredWitness ==
  /\ publicStatus.exists
  /\ config = <<DefOff, Def1>>
  /\ configFile = "object"
  /\ ServiceId2.v \in DOMAIN publicStatus.data
  /\ ServiceId2.v \in PublishedIds
  /\ PublishedData.overall.unknown = 1
  /\ PublishedData.overall.total = 2

\* C39, its other case: the store held a history of an id the configuration
\* lacks
OrphanOmittedWitness ==
  /\ publicStatus.exists
  /\ config = <<Def1>>
  /\ configFile = "object"
  /\ ServiceId2.v \in DOMAIN publicStatus.data
  /\ ServiceId2.v \notin PublishedIds
  /\ PublishedData.overall.total = 1

\* C40: the upgrade step is idempotent: once the document loaded from the
\* status file has been persisted, loading it again gives every entry the
\* status, lastCheck and recentChecks it has in memory, whatever the entry
\* first read was (no object and empty entries too).
UpgradeIdempotent ==
  ( /\ statusFile.exists
    /\ pendingWrites = {}
    /\ statusFile.doc = JsonDocument(statusData) )
  => \A k \in DOMAIN statusData :
       LET again == LoadedData(statusFile, now)[k]
       IN  /\ again.status = statusData[k].status
           /\ again.lastCheck = statusData[k].lastCheck
           /\ again.recentChecks = statusData[k].recentChecks

=============================================================================
